---- MODULE Spec2Model ----
(***************************************************************************)
(* A model of the mini-k8s control plane: the SQL resource store, the pod  *)
(* scheduler, the node health monitor, the service endpoint reconciler and *)
(* the layer-7 load balancer.  Every controller tick is one atomic action  *)
(* over the store; store operations may fail where a specification allows  *)
(* faults.                                                                 *)
(***************************************************************************)
EXTENDS Integers, Sequences, FiniteSets, TLC

VARIABLES
    nodes,        \* nodes table, newest row first (ORDER BY created_at DESC)
    pods,         \* resources table, kind = "Pod": a set of rows
    bindings,     \* pod_assignments table: a set of rows, pod_id is the key
    now,          \* process-local wall clock, in minutes
    used,         \* object names that have been created: a name is created
                  \* once, so that an object's name also stands for its UID
    touch,        \* per node name: when the node last reported in, and
                  \* whether it has reported at intervals under the timeout
    resourceFlag, \* the scheduler's -resource-scheduler flag
    services,     \* resources table, kind = "Service": a set of rows
    settled,      \* a reconciler tick has completed, and no pod or service
                  \* row has been written since
    proxies,      \* the load balancer's table: service key -> proxy
    response,     \* the load balancer's answer to the latest request, and
                  \* a bit that alternates from one request to the next
    call,         \* the latest direct call of a function of the program:
                  \* its arguments and, once it has returned, its result
    tasks         \* per long-lived task: where its goroutine is, its
                  \* ticker and stop channels, and the caller of Stop

clusterVars == <<nodes, pods, bindings, now, used, touch, resourceFlag>>
serviceVars == <<services, settled>>
lbVars == <<proxies, response>>
callVars == <<call>>

vars == <<clusterVars, serviceVars, lbVars, callVars, tasks>>

-----------------------------------------------------------------------------
(* Bounds of the model *)

MaxTime == 3          \* the clock runs 0 .. MaxTime
MaxCandidates == 3    \* nodes handed to one direct selectNode call
MaxDispatch == 10      \* dispatches followed per proxy and endpoint set

(* Program constants *)

HeartbeatTimeout == 2 \* NewNodeMonitor(repo, 2*time.Minute)

\* isValidName: the longest object name ingress validation lets through
MaxNameLen == 253

NodeNames == {"n1", "n2"}
PodNames == {"a", "b"}
Namespaces == {"default"}

-----------------------------------------------------------------------------
(* Maps (Go map[string]string): functions with a finite string domain *)

EmptyMap == [k \in {} |-> ""]

\* Go's m[k] on a map: the zero value "" when the key is missing
Lookup(m, k) == IF k \in DOMAIN m THEN m[k] ELSE ""

\* the bytes of the object names the model uses
NameBytes(name) ==
    CASE name = "a" -> <<97>>
      [] name = "b" -> <<98>>
      [] name = "p" -> <<112>>
      [] OTHER -> <<>>

\* Go's int as 16-bit limbs, least significant first: four limbs on the
\* 64-bit builds, two on the 32-bit ones.  31*hash + carry from limb i on;
\* what is carried out of the top limb is lost, as the addition wraps.
RECURSIVE times31Plus(_, _, _)
times31Plus(hash, i, carry) ==
    IF i > Len(hash) THEN <<>>
    ELSE LET v == 31 * hash[i] + carry
         IN <<v % 65536>> \o times31Plus(hash, i + 1, v \div 65536)

RECURSIVE hashFrom(_, _, _)
hashFrom(bytes, i, hash) ==
    IF i > Len(bytes) THEN hash
    ELSE hashFrom(bytes, i + 1, times31Plus(hash, 1, bytes[i]))

\* hashString: h = 31*h + byte, seeded 0, in a 64-bit int
hashString(name) == hashFrom(NameBytes(name), 1, <<0, 0, 0, 0>>)

\* the unsigned value of the limbs from limb i on, modulo n
RECURSIVE limbsMod(_, _, _)
limbsMod(hash, i, n) ==
    IF i > Len(hash) THEN 0
    ELSE (hash[i] + 65536 * limbsMod(hash, i + 1, n)) % n

\* Go's hash % n: the quotient is truncated toward zero, so the remainder
\* has the sign of hash, which is negative when its top bit is set
remainder(hash, n) ==
    LET m == limbsMod(hash, 1, n)
        wrap == limbsMod([i \in 1..(Len(hash) + 1) |->
                             IF i = Len(hash) + 1 THEN 1 ELSE 0], 1, n)
    IN IF hash[Len(hash)] < 32768 THEN m
       ELSE 0 - ((wrap + n - m) % n)

-----------------------------------------------------------------------------
(* Resource quantities: a number and a suffix ("500m", "4", "8Gi") *)

Qty(n, suffix) == [n |-> n, suffix |-> suffix]

Parsed(v) == [ok |-> TRUE, v |-> v]
ParseError == [ok |-> FALSE, v |-> 0]

\* millicores: suffix "m" is taken as is, a bare number of cores is * 1000
parseCPUResource(q) ==
    CASE q.suffix = "m" -> Parsed(q.n)
      [] q.suffix = "" -> Parsed(q.n * 1000)
      [] OTHER -> ParseError

\* memory in MiB (the code computes bytes; the model keeps binary suffixes
\* from Mi up so that the values stay inside TLC's integers)
parseMemoryResource(q) ==
    CASE q.suffix = "Mi" -> Parsed(q.n)
      [] q.suffix = "Gi" -> Parsed(q.n * 1024)
      [] q.suffix = "Ti" -> Parsed(q.n * 1024 * 1024)
      [] OTHER -> ParseError

SmallNode == [cpu |-> Qty(2, ""), memory |-> Qty(4, "Gi")]
LargeNode == [cpu |-> Qty(8, ""), memory |-> Qty(16, "Gi")]

\* the machine behind each node name
Allocatable(name) == IF name = "n1" THEN SmallNode ELSE LargeNode

\* resources.requests of each container of a pod: one container that asks
\* for nothing; two containers that ask for cpu=4, memory=8Gi between them
NoRequests == <<EmptyMap>>
BigRequests == <<[cpu |-> Qty(2, ""), memory |-> Qty(4, "Gi")],
                 [cpu |-> Qty(2, ""), memory |-> Qty(4, "Gi")]>>

\* the pod specs clients send: plain, with requests, with a node selector,
\* and with spec.nodeName already filled in
PodSpecs ==
    {[nodeSelector |-> EmptyMap, requests |-> NoRequests, nodeName |-> ""],
     [nodeSelector |-> EmptyMap, requests |-> BigRequests, nodeName |-> ""],
     [nodeSelector |-> [disk |-> "ssd"], requests |-> NoRequests, nodeName |-> ""],
     [nodeSelector |-> EmptyMap, requests |-> NoRequests, nodeName |-> "n1"]}

-----------------------------------------------------------------------------
(* Rows of the store *)

NodeUID(name) == <<"node", name>>
PodUID(ns, name) == <<"pod", ns, name>>

PodKey(p) == <<p.namespace, p.name>>

\* types.PodCondition, by type and status
Cond(type, status) == [type |-> type, status |-> status]

NodeRow(name) == CHOOSE n \in {nodes[i] : i \in 1..Len(nodes)} : n.name = name
NodeExists(name) == \E i \in 1..Len(nodes) : nodes[i].name = name
NodeRows == {nodes[i] : i \in 1..Len(nodes)}

\* GetPodAssignment: the row of the pod, if any
HasAssignment(podID) == \E b \in bindings : b.podID = podID
GetPodAssignment(podID) == CHOOSE b \in bindings : b.podID = podID

\* ListPodAssignmentsByNode
ListPodAssignmentsByNode(nodeID) == {b \in bindings : b.nodeID = nodeID}

\* no direct call has been made
NoCall == [fn |-> "none"]

\* the long-lived tasks: each a goroutine around a ticker and a stop channel
Tasks == {"scheduler", "monitor", "reconciler", "balancer"}

\* the tasks as constructed: stopCh made, no goroutine, no caller of Stop
NotStarted ==
    [t \in Tasks |-> [pc |-> "new", ticker |-> FALSE, stopCh |-> "open",
                      stop |-> "none", late |-> FALSE]]

-----------------------------------------------------------------------------
Init ==
    /\ nodes = <<>>
    /\ pods = {}
    /\ bindings = {}
    /\ now = 0
    /\ used = {}
    /\ touch = [x \in NodeNames |-> [last |-> 0, steady |-> TRUE]]
    /\ resourceFlag \in BOOLEAN
    /\ services = {}
    /\ settled = FALSE
    /\ proxies = <<>>
    /\ response = [status |-> "none", upstream |-> <<>>, seq |-> 0]
    /\ call = NoCall
    /\ tasks = NotStarted

-----------------------------------------------------------------------------
(* Object ingress API and the store operations it calls *)

\* POST /api/v1/nodes: a fresh UID; Ready=Unknown is seeded only when the
\* request carries no conditions at all.  given = "none": no conditions,
\* given = "True": the agent's registration (Ready=True stamped now),
\* given = "False": conditions with Ready=False stamped now,
\* given = "other": conditions that hold no Ready entry.
createNode(name, given, alloc) ==
    /\ ~NodeExists(name)                      \* nodes.name is UNIQUE
    /\ name \notin used
    /\ used' = used \cup {name}
    /\ nodes' = <<[name |-> name,
                   uid |-> NodeUID(name),
                   ready |-> CASE given = "none" -> "Unknown"
                               [] given = "True" -> "True"
                               [] given = "False" -> "False"
                               [] OTHER -> "Absent",
                   hb |-> now,
                   lastHeartbeat |-> now,
                   allocatable |-> alloc]>> \o nodes
    /\ touch' = [touch EXCEPT ![name] = [last |-> now, steady |-> TRUE]]
    /\ UNCHANGED <<pods, bindings, now, resourceFlag, tasks, serviceVars, lbVars, callVars>>

\* whether pod_assignments.node_id REFERENCES nodes(id) is enforced
ForeignKeysEnforced == TRUE

\* DELETE /api/v1/nodes/{name}
deleteNode(name) ==
    /\ NodeExists(name)
    /\ ~(ForeignKeysEnforced /\ ListPodAssignmentsByNode(NodeRow(name).uid) # {})
    /\ nodes' = SelectSeq(nodes, LAMBDA n : n.name # name)
    /\ UNCHANGED <<pods, bindings, now, used, touch, resourceFlag, tasks, serviceVars, lbVars, callVars>>

\* UpdateNodeHeartbeat: UPDATE nodes SET last_heartbeat = now WHERE name = ?
UpdateNodeHeartbeat(rows, name) ==
    [i \in 1..Len(rows) |->
        IF rows[i].name = name THEN [rows[i] EXCEPT !.lastHeartbeat = now]
        ELSE rows[i]]

\* POST /api/v1/nodes/{name}/heartbeat
updateNodeHeartbeat(name) ==
    /\ NodeExists(name)
    /\ nodes' = UpdateNodeHeartbeat(nodes, name)
    /\ touch' = [touch EXCEPT ![name] =
                    [last |-> now,
                     steady |-> @.steady /\ now - @.last < HeartbeatTimeout]]
    /\ UNCHANGED <<pods, bindings, now, used, resourceFlag, tasks, serviceVars, lbVars, callVars>>

\* POST /api/v1/pods: the spec is stored as sent (nodeName included), the
\* status is reset to Pending, and the row is written without metadata.
createdPod(ns, name, selector, requests, nodeName) ==
    [uid |-> PodUID(ns, name),
     namespace |-> ns,
     name |-> name,
     metadata |-> [ok |-> FALSE, labels |-> EmptyMap],
     nodeSelector |-> selector,
     requests |-> requests,
     nodeName |-> nodeName,
     phase |-> "Pending",
     conditions |-> <<Cond("PodScheduled", "False")>>,
     podIP |-> "",
     containerStatuses |-> <<>>,
     ports |-> <<>>]

createPodInNamespace(ns, name, selector, requests, nodeName) ==
    /\ ~\E p \in pods : PodKey(p) = <<ns, name>>   \* UNIQUE(kind, ns, name)
    /\ name \notin used
    /\ used' = used \cup {name}
    /\ pods' = pods \cup {createdPod(ns, name, selector, requests, nodeName)}
    /\ settled' = FALSE
    /\ UNCHANGED <<nodes, bindings, now, touch, resourceFlag, tasks, services, lbVars, callVars>>

\* PUT /api/v1/pods/{name}: spec and status are stored as sent and the row
\* is written without metadata.  The client sends the pod it read, Running,
\* with its readiness changed to ready and, when ready, with its pod IP.
updatePodInNamespace(ns, name, ready) ==
    /\ \E p \in pods : PodKey(p) = <<ns, name>>
    /\ pods' = {IF PodKey(p) = <<ns, name>>
                THEN [p EXCEPT
                        !.metadata = [ok |-> FALSE, labels |-> EmptyMap],
                        !.phase = "Running",
                        !.podIP = IF ready THEN "10.0.0.1" ELSE @,
                        !.conditions = IF ready THEN <<Cond("Ready", "True")>>
                                       ELSE <<>>,
                        !.containerStatuses = <<ready>>]
                ELSE p : p \in pods}
    /\ settled' = FALSE
    /\ UNCHANGED <<nodes, bindings, now, used, touch, resourceFlag, tasks, services,
                   lbVars, callVars>>

\* DELETE /api/v1/pods/{name}: removes the resource row only
deletePodFromNamespace(ns, name) ==
    /\ \E p \in pods : PodKey(p) = <<ns, name>>
    /\ pods' = {p \in pods : PodKey(p) # <<ns, name>>}
    /\ settled' = FALSE
    /\ UNCHANGED <<nodes, bindings, now, used, touch, resourceFlag, tasks, services, lbVars, callVars>>

\* the wall clock advances
AdvanceTime ==
    /\ now < MaxTime
    /\ now' = now + 1
    /\ UNCHANGED <<nodes, pods, bindings, used, touch, resourceFlag, tasks,
                   serviceVars, lbVars, callVars>>

-----------------------------------------------------------------------------
(* Scheduler *)

\* ListNodes: each row becomes a node object whose metadata holds the name,
\* the UID and the creation time only: the nodes table stores no labels.
ListNodes ==
    [i \in 1..Len(nodes) |->
        [name |-> nodes[i].name, uid |-> nodes[i].uid, labels |-> EmptyMap,
         ready |-> nodes[i].ready, hb |-> nodes[i].hb,
         allocatable |-> nodes[i].allocatable]]

\* isNodeReady: some condition has Type "Ready" and Status "True"
isNodeReady(node) == node.ready = "True"

\* getAvailableNodes
getAvailableNodes == SelectSeq(ListNodes, isNodeReady)

\* matchNodeSelector: every selector pair equals the node's label
matchNodeSelector(node, selector) ==
    \A k \in DOMAIN selector : Lookup(node.labels, k) = selector[k]

\* the nodes that pass the pod's nodeSelector (all of them when it is empty)
eligibleNodes(pod, ns) ==
    IF DOMAIN pod.nodeSelector # {}
    THEN SelectSeq(ns, LAMBDA n : matchNodeSelector(n, pod.nodeSelector))
    ELSE ns

\* what selectNode returns: (nil, error) or (node, nil)
SelectError(err) ==
    [ok |-> FALSE, node |-> [name |-> "", uid |-> <<>>], err |-> err]
Selected(n) == [ok |-> TRUE, node |-> n, err |-> ""]

\* eligibleNodes[nodeIndex]: the node at the index, or the run-time panic of
\* an index below zero, which ends the process
nodeAt(eligible, nodeIndex) ==
    IF nodeIndex < 0 THEN SelectError("panic: index out of range")
    ELSE Selected(eligible[nodeIndex + 1])

\* (*Scheduler).selectNode: eligible[hashString(pod.name) % len(eligible)]
selectNode(pod, ns) ==
    IF Len(ns) = 0 THEN SelectError("no nodes available")
    ELSE LET eligible == eligibleNodes(pod, ns)
         IN IF Len(eligible) = 0
            THEN SelectError("no nodes match node selector")
            ELSE nodeAt(eligible,
                        remainder(hashString(pod.name), Len(eligible)))

\* getPendingPods: spec.nodeName == "" && status.phase != "Scheduled"
isPending(pod) == pod.nodeName = "" /\ pod.phase # "Scheduled"
getPendingPods == {p \in pods : isPending(p)}


\* schedulePod up to AssignPodToNode: the row inserted for the pod, if any.
\* The tick runs (*Scheduler).schedulePod, whose s.selectNode is the basic
\* policy whichever scheduler object main started.
assignedRow(pod, avail, fault) ==
    IF HasAssignment(pod.uid) /\ fault # "getAssignment" THEN {}
    ELSE LET sel == selectNode(pod, avail)
         IN IF ~sel.ok THEN {}
            ELSE IF fault = "assign" \/ HasAssignment(pod.uid) THEN {}
            ELSE {[podID |-> pod.uid, nodeID |-> sel.node.uid,
                   status |-> "Pending"]}

\* schedulePod after the insert: the pod row written by UpdateResource, whose
\* Resource carries spec and status only (the metadata column becomes "")
scheduledPod(pod, avail, fault) ==
    LET row == assignedRow(pod, avail, fault)
    IN IF row = {} \/ fault = "update" THEN pod
       ELSE [pod EXCEPT
               !.nodeName = selectNode(pod, avail).node.name,
               !.phase = "Scheduled",
               !.conditions = Append(@, Cond("PodScheduled", "True")),
               !.metadata = [ok |-> FALSE, labels |-> EmptyMap]]

\* schedulePendingPods with the store faults f (per pending pod)
schedulePendingPods(f) ==
    LET pending == getPendingPods
        avail == getAvailableNodes
    IN /\ pending # {}
       /\ Len(avail) > 0
       /\ bindings' = bindings \cup
            UNION {assignedRow(p, avail, f[p.uid]) : p \in pending}
       /\ pods' = {IF isPending(p) THEN scheduledPod(p, avail, f[p.uid]) ELSE p
                     : p \in pods}
       /\ settled' = FALSE
       /\ UNCHANGED <<nodes, now, used, touch, resourceFlag, tasks, services, lbVars, callVars>>


\* one scheduler tick, every store operation succeeding
SchedulerTick ==
    schedulePendingPods([u \in {p.uid : p \in pods} |-> "none"])

-----------------------------------------------------------------------------
(* Resource-aware node selection *)

Resources(cpu, memory) == [ok |-> TRUE, cpu |-> cpu, memory |-> memory]
ResourceError == [ok |-> FALSE, cpu |-> 0, memory |-> 0]

\* calculatePodResourceRequests: the sum over the containers from index i on
RECURSIVE sumRequests(_, _, _)
sumRequests(containers, i, total) ==
    IF i > Len(containers) THEN total
    ELSE LET r == containers[i]
             cpu == IF "cpu" \in DOMAIN r THEN parseCPUResource(r.cpu)
                    ELSE Parsed(0)
             memory == IF "memory" \in DOMAIN r
                       THEN parseMemoryResource(r.memory) ELSE Parsed(0)
         IN IF ~cpu.ok \/ ~memory.ok THEN ResourceError
            ELSE sumRequests(containers, i + 1,
                     Resources(total.cpu + cpu.v, total.memory + memory.v))

calculatePodResourceRequests(pod) == sumRequests(pod.requests, 1, Resources(0, 0))

\* getNodeAvailableResources: the node's allocatable, as it is
getNodeAvailableResources(node) ==
    IF "cpu" \notin DOMAIN node.allocatable THEN ResourceError
    ELSE IF "memory" \notin DOMAIN node.allocatable THEN ResourceError
    ELSE LET cpu == parseCPUResource(node.allocatable.cpu)
             memory == parseMemoryResource(node.allocatable.memory)
         IN IF ~cpu.ok \/ ~memory.ok THEN ResourceError
            ELSE Resources(cpu.v, memory.v)

\* a score is the quotient request / capacity, kept as a fraction
Frac(num, den) == [num |-> num, den |-> den]
\* a comparison that also holds between equal scores
FracLessOrEqual(x, y) == x.num * y.den <= y.num * x.den

FracLess(x, y) == x.num * y.den < y.num * x.den
FracMax(x, y) == IF FracLess(x, y) THEN y ELSE x

\* the loop over the eligible nodes: best is the node kept so far
RECURSIVE bestNode(_, _, _, _, _)
bestNode(eligible, i, req, best, bestScore) ==
    IF i > Len(eligible) THEN best
    ELSE LET have == getNodeAvailableResources(eligible[i])
         IN IF ~have.ok \/ have.cpu < req.cpu \/ have.memory < req.memory
            THEN bestNode(eligible, i + 1, req, best, bestScore)
            ELSE LET score == FracMax(Frac(req.cpu, have.cpu),
                                      Frac(req.memory, have.memory))
                 IN IF ~best.ok \/ FracLess(score, bestScore)
                    THEN bestNode(eligible, i + 1, req,
                                  Selected(eligible[i]), score)
                    ELSE bestNode(eligible, i + 1, req, best, bestScore)

\* (*ResourceScheduler).selectNode
ResourceScheduler_selectNode(pod, ns) ==
    IF Len(ns) = 0 THEN SelectError("no nodes available")
    ELSE LET eligible == eligibleNodes(pod, ns)
             req == calculatePodResourceRequests(pod)
         IN IF Len(eligible) = 0
            THEN SelectError("no nodes match node selector")
            ELSE IF ~req.ok
            THEN nodeAt(eligible,
                        remainder(hashString(pod.name), Len(eligible)))
            ELSE bestNode(eligible, 1, req,
                     SelectError("no node with sufficient resources available"),
                     Frac(0, 1))

-----------------------------------------------------------------------------
(* Node health monitor *)

\* the Ready condition the monitor works on: an absent one is appended with
\* Status Unknown and LastHeartbeatTime now
readyCondition(n) ==
    IF n.ready = "Absent" THEN [status |-> "Unknown", hb |-> now]
    ELSE [status |-> n.ready, hb |-> n.hb]

\* a monitor that allows one more minute of silence
missedHeartbeatsLate(n) == now - readyCondition(n).hb > HeartbeatTimeout + 1

\* timeSinceHeartbeat > nm.heartbeatTimeout
missedHeartbeats(n) == now - readyCondition(n).hb > HeartbeatTimeout

\* the node goes to Ready=False in this tick
becomesNotReady(n) == missedHeartbeats(n) /\ readyCondition(n).status # "False"

\* a recovery that leaves Unknown as it is
becomesReadyAfterFalse(n) ==
    ~missedHeartbeats(n) /\ readyCondition(n).status = "False"

\* the node goes to Ready=True in this tick
becomesReady(n) == ~missedHeartbeats(n) /\ readyCondition(n).status # "True"

\* UpdateNode: status and last_heartbeat are overwritten
checkedNode(n) ==
    IF becomesNotReady(n)
    THEN [n EXCEPT !.ready = "False", !.hb = readyCondition(n).hb,
                   !.lastHeartbeat = now]
    ELSE IF becomesReady(n)
    THEN [n EXCEPT !.ready = "True", !.hb = readyCondition(n).hb,
                   !.lastHeartbeat = now]
    ELSE n

\* a failure handling that leaves spec.nodeName in place
failedPodKeepsNode(p) ==
    [p EXCEPT !.phase = "Failed",
              !.conditions = Append(@, Cond("NodeFailed", "True"))]

\* handleNodeFailure on one pod row: phase Failed, a NodeFailed condition,
\* nodeName cleared; spec, status and metadata are written back
failedPod(p) ==
    [p EXCEPT !.nodeName = "",
              !.phase = "Failed",
              !.conditions = Append(@, Cond("NodeFailed", "True"))]

\* checkNodeHealth with the store faults: nf per node name, pf per pod UID
checkNodeHealth(nf, pf) ==
    LET failed == {n.uid : n \in {m \in NodeRows :
                       becomesNotReady(m) /\ nf[m.name] # "listAssignments"}}
        marked == {b \in bindings : b.nodeID \in failed /\ pf[b.podID] # "setStatus"}
        moved == {b.podID : b \in {c \in marked : pf[c.podID] = "none"}}
    IN /\ nodes' = [i \in 1..Len(nodes) |->
                      IF nf[nodes[i].name] = "updateNode" THEN nodes[i]
                      ELSE checkedNode(nodes[i])]
       /\ bindings' = {IF b \in marked THEN [b EXCEPT !.status = "NodeFailed"]
                       ELSE b : b \in bindings}
       /\ pods' = {IF p.uid \in moved THEN failedPod(p) ELSE p : p \in pods}
       /\ settled' = FALSE
       /\ UNCHANGED <<now, used, touch, resourceFlag, tasks, services, lbVars, callVars>>

\* one monitor tick, every store operation succeeding
MonitorTick ==
    /\ Len(nodes) > 0
    /\ checkNodeHealth([n \in NodeNames |-> "none"],
                       [u \in {b.podID : b \in bindings} |-> "none"])

-----------------------------------------------------------------------------
(* Service endpoint reconciler *)

ServiceNames == {"s"}

\* types.Endpoint
Endpoint(ip, port, ready, nodeName) ==
    [ip |-> ip, port |-> port, ready |-> ready, nodeName |-> nodeName]

\* types.ServicePort and types.ContainerPort
ServicePort(name, port, targetPort) ==
    [name |-> name, port |-> port, targetPort |-> targetPort]
ContainerPort(name, containerPort) ==
    [name |-> name, containerPort |-> containerPort]

\* the ports a service is created with: a target port number, and a port
\* name resolved against the containers
ServicePortChoices ==
    {<<ServicePort("", 80, 8080)>>, <<ServicePort("http", 80, 0)>>}

SelectorChoices == {[app |-> "web"], EmptyMap}

\* the pods collaborators write through the repository: one container that
\* listens on 8080 ("http"), phase Running, a pod IP, and either ready
\* (a Ready=True condition) or not (its container reports not ready)
StoredPodSpecs ==
    [namespace : {"default", "prod"},
     labels : {[app |-> "web"], [app |-> "api"]},
     podIP : {"10.0.0.1", "10.0.0.2"},
     ready : BOOLEAN,
     nodeName : {"n1", "n2"}]

\* repository.CreateResource of a pod row that carries its metadata
storePod(name, spec) ==
    /\ ~\E p \in pods : PodKey(p) = <<spec.namespace, name>>
    /\ name \notin used
    /\ used' = used \cup {name}
    /\ pods' = pods \cup
         {[uid |-> PodUID(spec.namespace, name),
           namespace |-> spec.namespace,
           name |-> name,
           metadata |-> [ok |-> TRUE, labels |-> spec.labels],
           nodeSelector |-> EmptyMap,
           requests |-> NoRequests,
           nodeName |-> spec.nodeName,
           phase |-> "Running",
           conditions |-> IF spec.ready THEN <<Cond("Ready", "True")>>
                          ELSE <<>>,
           podIP |-> spec.podIP,
           containerStatuses |-> <<spec.ready>>,
           ports |-> <<ContainerPort("http", 8080)>>]}
    /\ settled' = FALSE
    /\ UNCHANGED <<nodes, bindings, now, touch, resourceFlag, tasks, services, lbVars, callVars>>

ServiceKey(svc) == <<svc.namespace, svc.name>>

\* POST /api/v1/services: the status starts with no endpoints
createServiceInNamespace(ns, name, selector, ports) ==
    /\ ~\E svc \in services : ServiceKey(svc) = <<ns, name>>
    /\ services' = services \cup
         {[namespace |-> ns, name |-> name, selector |-> selector,
           ports |-> ports, endpoints |-> <<>>]}
    /\ settled' = FALSE
    /\ UNCHANGED <<clusterVars, tasks, lbVars, callVars>>

\* PUT /api/v1/services/{name}: spec and status are stored as sent
updateServiceInNamespace(ns, name, selector, ports, endpoints) ==
    /\ \E svc \in services : ServiceKey(svc) = <<ns, name>>
    /\ services' = {IF ServiceKey(svc) = <<ns, name>>
                    THEN [svc EXCEPT !.selector = selector, !.ports = ports,
                                     !.endpoints = endpoints]
                    ELSE svc : svc \in services}
    /\ settled' = FALSE
    /\ UNCHANGED <<clusterVars, tasks, lbVars, callVars>>

\* DELETE /api/v1/services/{name}
deleteServiceFromNamespace(ns, name) ==
    /\ \E svc \in services : ServiceKey(svc) = <<ns, name>>
    /\ services' = {svc \in services : ServiceKey(svc) # <<ns, name>>}
    /\ settled' = FALSE
    /\ UNCHANGED <<clusterVars, tasks, lbVars, callVars>>

\* matchesSelector: an empty selector matches nothing
matchesSelector(podLabels, selector) ==
    IF DOMAIN selector = {} THEN FALSE
    ELSE \A k \in DOMAIN selector : Lookup(podLabels, k) = selector[k]

\* isPodReady: Running, with an IP, and the first Ready condition True;
\* without a Ready condition, every reported container ready
isPodReady(pod) ==
    LET idx == {i \in 1..Len(pod.conditions) : pod.conditions[i].type = "Ready"}
        first == CHOOSE i \in idx : \A j \in idx : i <= j
    IN /\ pod.phase = "Running"
       /\ pod.podIP # ""
       /\ IF idx # {} THEN pod.conditions[first].status = "True"
          ELSE \A i \in 1..Len(pod.containerStatuses) : pod.containerStatuses[i]

\* findMatchingPods: rows whose metadata does not parse are skipped
findMatchingPods(selector, podList, namespace) ==
    SelectSeq(podList,
              LAMBDA p : /\ p.namespace = namespace
                         /\ p.metadata.ok
                         /\ matchesSelector(p.metadata.labels, selector)
                         /\ isPodReady(p))

\* findContainerPort: the first container port whose name is the service
\* port's name or whose number is the target port; 0 when there is none
findContainerPort(ports, targetPort, portName) ==
    LET hits == {i \in 1..Len(ports) :
                    \/ portName # "" /\ ports[i].name = portName
                    \/ ports[i].containerPort = targetPort}
    IN IF hits = {} THEN 0
       ELSE ports[CHOOSE i \in hits : \A j \in hits : i <= j].containerPort

\* the endpoint buildEndpoints makes of one pod and one service port
endpointOf(pod, servicePort) ==
    LET targetPort == IF servicePort.targetPort = 0 THEN servicePort.port
                      ELSE servicePort.targetPort
        found == findContainerPort(pod.ports, targetPort, servicePort.name)
    IN Endpoint(pod.podIP, IF found = 0 THEN targetPort ELSE found,
                isPodReady(pod), pod.nodeName)

\* buildEndpoints: pods in list order, and per pod the service ports in order
RECURSIVE buildEndpoints(_, _)
buildEndpoints(podList, servicePorts) ==
    IF podList = <<>> THEN <<>>
    ELSE (IF Head(podList).podIP = "" THEN <<>>
          ELSE [i \in 1..Len(servicePorts) |->
                   endpointOf(Head(podList), servicePorts[i])])
         \o buildEndpoints(Tail(podList), servicePorts)

EndpointKey(e) == <<e.ip, e.port>>

\* the map endpointsEqual builds of a list: a later entry replaces an
\* earlier one under the same "ip:port" key
endpointMap(list) ==
    [k \in {EndpointKey(list[i]) : i \in 1..Len(list)} |->
        list[CHOOSE i \in 1..Len(list) :
                /\ EndpointKey(list[i]) = k
                /\ \A j \in 1..Len(list) : EndpointKey(list[j]) = k => j <= i]]

\* a comparison that looks at the lengths only
endpointsEqualByLength(a, b) == Len(a) = Len(b)

\* endpointsEqual: same length, and every key of a is in b with the same
\* Ready and NodeName
endpointsEqual(a, b) ==
    /\ Len(a) = Len(b)
    /\ LET aMap == endpointMap(a)
           bMap == endpointMap(b)
       IN \A k \in DOMAIN aMap :
              /\ k \in DOMAIN bMap
              /\ aMap[k].ready = bMap[k].ready
              /\ aMap[k].nodeName = bMap[k].nodeName

\* reconcileService: the service row after the tick, pods listed as podList
reconcileService(svc, podList) ==
    LET matching == findMatchingPods(svc.selector, podList, svc.namespace)
        endpoints == buildEndpoints(matching, svc.ports)
    IN IF ~endpointsEqual(svc.endpoints, endpoints)
       THEN [svc EXCEPT !.endpoints = endpoints]
       ELSE svc

\* the orders in which ListResources can return the pod rows: by creation
\* time, which depends on the history and not on the rows' content
Listings(rows) ==
    {l \in [1..Cardinality(rows) -> rows] :
        \A i, j \in 1..Cardinality(rows) : l[i] = l[j] => i = j}

\* reconcileServices: one tick over all services, pods listed once
reconcileServices(podList) ==
    /\ services' = {reconcileService(svc, podList) : svc \in services}
    /\ settled' = TRUE
    /\ UNCHANGED <<clusterVars, tasks, lbVars, callVars>>

-----------------------------------------------------------------------------
(* Load balancer *)

\* a request: the labels of its Host header (none when there is no Host)
\* and the segments of its URL path after the leading "/"
HttpRequest(host, path) == [host |-> host, path |-> path]

HttpRequests ==
    {HttpRequest(<<"s", "default">>, <<>>),
     HttpRequest(<<"s">>, <<>>),
     HttpRequest(<<>>, <<"s", "index">>),
     HttpRequest(<<"x", "default">>, <<>>),
     HttpRequest(<<>>, <<>>)}

\* a resolution that looks at the path before the Host header
extractServiceInfoPathFirst(r) ==
    IF Len(r.path) > 0 /\ r.path[1] # "" THEN <<r.path[1], "default">>
    ELSE IF Len(r.host) >= 2 THEN <<r.host[1], r.host[2]>>
    ELSE IF Len(r.host) = 1 THEN <<r.host[1], "default">>
    ELSE <<"", "">>

\* extractServiceInfo: <<name, namespace>>, or <<"", "">>
extractServiceInfo(r) ==
    IF Len(r.host) >= 2 THEN <<r.host[1], r.host[2]>>
    ELSE IF Len(r.host) = 1 THEN <<r.host[1], "default">>
    ELSE IF Len(r.path) > 0 /\ r.path[1] # "" THEN <<r.path[1], "default">>
    ELSE <<"", "">>

\* the dot-separated labels of a name (names may hold dots)
Labels(name) ==
    CASE name = "s.default" -> <<"s", "default">>
      [] name = "default.default" -> <<"default", "default">>
      [] OTHER -> <<name>>

\* the table key "name.namespace", as its dot-separated labels
ProxyKey(name, namespace) == Labels(name) \o Labels(namespace)

ReadyEndpoints(endpoints) ==
    {endpoints[i] : i \in {j \in 1..Len(endpoints) : endpoints[j].ready}}

\* a replacement that always starts the cursor over
updateEndpointsFromStart(proxy, endpoints) ==
    [endpoints |-> endpoints, current |-> 0, picks |-> proxy.picks]

\* updateEndpoints: the list is replaced, and the cursor goes back to 0
\* when it is not an index of the new list.  picks, the endpoints chosen
\* since the set of ready endpoints last changed, is kept for the properties.
updateEndpoints(proxy, endpoints) ==
    [endpoints |-> endpoints,
     current |-> IF proxy.current >= Len(endpoints) THEN 0 ELSE proxy.current,
     picks |-> IF ReadyEndpoints(endpoints) = ReadyEndpoints(proxy.endpoints)
               THEN proxy.picks ELSE <<>>]

\* the loop of updateServices over the listed services: the proxy under a
\* service's key is updated when the table has one, and made otherwise
RECURSIVE upsertProxies(_, _)
upsertProxies(table, list) ==
    IF list = <<>> THEN table
    ELSE LET svc == Head(list)
             k == ProxyKey(svc.name, svc.namespace)
         IN upsertProxies(
                IF k \in DOMAIN table
                THEN [table EXCEPT ![k] = updateEndpoints(@, svc.endpoints)]
                ELSE [x \in DOMAIN table \cup {k} |->
                         IF x = k
                         THEN [endpoints |-> svc.endpoints, current |-> 0,
                               picks |-> <<>>]
                         ELSE table[x]],
                Tail(list))

\* updateServices: one refresh of the table from the services as listed;
\* proxies under keys of no listed service are removed
updateServices(list) ==
    LET table == upsertProxies(proxies, list)
        currentServices == {ProxyKey(list[i].name, list[i].namespace) :
                               i \in 1..Len(list)}
    IN /\ proxies' = [k \in DOMAIN table \cap currentServices |-> table[k]]
       /\ UNCHANGED <<callVars, clusterVars, tasks, serviceVars, response>>

\* a filter that lets every endpoint through
healthyEndpointsUnfiltered(proxy) == proxy.endpoints

\* the ready endpoints of a proxy, in list order
healthyEndpoints(proxy) == SelectSeq(proxy.endpoints, LAMBDA e : e.ready)

\* the answer to a request; seq tells it from the answer before it
Answer(status, upstream) ==
    [status |-> status, upstream |-> upstream, seq |-> 1 - response.seq]

\* handleRequest: 404 without a proxy, 503 without a ready endpoint,
\* otherwise getNextHealthyEndpoint picks healthy[current % len(healthy)]
\* and advances the cursor
handleRequest(r) ==
    LET info == extractServiceInfo(r)
        key == ProxyKey(info[1], info[2])
    IN IF info[1] = "" \/ key \notin DOMAIN proxies
       THEN /\ response' = Answer("404", <<>>)
            /\ UNCHANGED <<callVars, clusterVars, tasks, serviceVars, proxies>>
       ELSE LET proxy == proxies[key]
                healthy == healthyEndpoints(proxy)
            IN IF Len(healthy) = 0
               THEN /\ response' = Answer("503", <<>>)
                    /\ UNCHANGED <<callVars, clusterVars, tasks, serviceVars, proxies>>
               ELSE LET endpoint == healthy[(proxy.current % Len(healthy)) + 1]
                    IN /\ Len(proxy.picks) < MaxDispatch
                       /\ response' = Answer("forwarded", <<endpoint>>)
                       /\ proxies' = [proxies EXCEPT ![key] =
                              [@ EXCEPT !.current = @ + 1,
                                        !.picks = Append(@, endpoint)]]
                       /\ UNCHANGED <<callVars, clusterVars, tasks, serviceVars>>

-----------------------------------------------------------------------------
(* External callers *)

\* three endpoints of which the second is not ready
MixedEndpoints ==
    <<Endpoint("10.0.0.1", 8080, TRUE, "n1"),
      Endpoint("10.0.0.2", 8080, FALSE, "n2"),
      Endpoint("10.0.0.3", 8080, TRUE, "n2")>>

\* endpoint lists a client can send in a service status
SentEndpoints ==
    {<<>>,
     <<Endpoint("10.0.0.9", 8080, TRUE, "n1")>>,
     <<Endpoint("10.0.0.1", 8080, FALSE, "n1")>>,
     <<Endpoint("10.0.0.1", 8080, TRUE, "n1"),
       Endpoint("10.0.0.2", 8080, TRUE, "n2")>>,
     MixedEndpoints,
     <<Endpoint("10.0.0.1", 8080, TRUE, "n1"),
       Endpoint("10.0.0.1", 8080, TRUE, "n1")>>}

CreateService ==
    \E ns \in Namespaces, name \in ServiceNames, selector \in SelectorChoices,
       ports \in ServicePortChoices :
        createServiceInNamespace(ns, name, selector, ports)

UpdateService ==
    \E svc \in services, endpoints \in SentEndpoints :
        updateServiceInNamespace(svc.namespace, svc.name, svc.selector,
                                 svc.ports, endpoints)

UpdatePod ==
    \E ns \in Namespaces, name \in PodNames, ready \in BOOLEAN :
        updatePodInNamespace(ns, name, ready)

Refresh == \E list \in Listings(services) : updateServices(list)

Dispatch == \E r \in HttpRequests : handleRequest(r)

ReconcilerTick == \E podList \in Listings(pods) : reconcileServices(podList)

CreateNode ==
    \E name \in NodeNames, given \in {"none", "True", "False", "other"} :
        createNode(name, given, Allocatable(name))

DeleteNode == \E name \in NodeNames : deleteNode(name)

CreatePod ==
    \E ns \in Namespaces, name \in PodNames, spec \in PodSpecs :
        createPodInNamespace(ns, name, spec.nodeSelector, spec.requests,
                             spec.nodeName)

DeletePod ==
    \E ns \in Namespaces, name \in PodNames : deletePodFromNamespace(ns, name)

\* the cluster over a store whose operations always succeed
Spec ==
    /\ Init
    /\ [][
       \/ CreateNode
       \/ DeleteNode
       \/ CreatePod
       \/ DeletePod
       \/ AdvanceTime
       \/ SchedulerTick
       \/ MonitorTick
       ]_vars

\* the cluster over a store whose operations may fail under the scheduler
SpecFaulty ==
    /\ Init
    /\ [][
       \/ CreateNode
       \/ CreatePod
       \/ AdvanceTime
       \/ \E f \in [{p.uid : p \in pods} ->
                       {"none", "getAssignment", "assign", "update"}] :
              schedulePendingPods(f)
       \/ MonitorTick
       ]_vars

\* nodes, their heartbeats and the monitor
SpecMonitor ==
    /\ Init
    /\ [][
       \/ CreateNode
       \/ DeleteNode
       \/ \E name \in NodeNames : updateNodeHeartbeat(name)
       \/ AdvanceTime
       \/ MonitorTick
       ]_vars

\* pods, services and the endpoint reconciler
SpecReconcile ==
    /\ Init
    /\ [][
       \/ \E name \in PodNames, spec \in StoredPodSpecs : storePod(name, spec)
       \/ UpdatePod
       \/ DeletePod
       \/ CreateService
       \/ UpdateService
       \/ ReconcilerTick
       ]_vars

\* services and the load balancer in front of them
SpecBalancer ==
    /\ Init
    /\ [][
       \/ CreateService
       \/ UpdateService
       \/ \E ns \in Namespaces, name \in ServiceNames :
              deleteServiceFromNamespace(ns, name)
       \/ Refresh
       \/ Dispatch
       ]_vars

-----------------------------------------------------------------------------
(* Direct calls of the resource scheduler's selectNode *)

MediumNode == [cpu |-> Qty(4, ""), memory |-> Qty(8, "Gi")]

\* the nodes a caller hands over: labels and status.allocatable; the last
\* one reports no allocatable cpu
NodeShapes ==
    {[labels |-> EmptyMap, allocatable |-> SmallNode],
     [labels |-> EmptyMap, allocatable |-> MediumNode],
     [labels |-> EmptyMap, allocatable |-> LargeNode],
     [labels |-> [disk |-> "ssd"], allocatable |-> LargeNode],
     [labels |-> EmptyMap, allocatable |-> [memory |-> Qty(16, "Gi")]]}

CandidateName(i) ==
    CASE i = 1 -> "n1" [] i = 2 -> "n2" [] i = 3 -> "n3" [] OTHER -> "n4"

\* the node list made of a sequence of shapes: Ready nodes named by position
Candidates(shapes) ==
    [i \in 1..Len(shapes) |->
        [name |-> CandidateName(i), uid |-> NodeUID(CandidateName(i)),
         labels |-> shapes[i].labels, ready |-> "True", hb |-> 0,
         allocatable |-> shapes[i].allocatable]]

CandidateLists ==
    {Candidates(shapes) :
        shapes \in UNION {[1..n -> NodeShapes] : n \in 0..MaxCandidates}}

SmallRequests == <<[cpu |-> Qty(500, "m"), memory |-> Qty(512, "Mi")]>>

\* a second container whose cpu request is "100X"
BadRequests == <<[cpu |-> Qty(2, ""), memory |-> Qty(4, "Gi")],
                 [cpu |-> Qty(100, "X")]>>

\* the pods a caller asks a node for
SelectPods ==
    [name : PodNames,
     nodeSelector : {EmptyMap, [disk |-> "ssd"]},
     requests : {NoRequests, SmallRequests, BigRequests, BadRequests}]

\* a caller is about to call selectNode(pod, nodes) on a resource scheduler
InitSelect ==
    /\ nodes = <<>>
    /\ pods = {}
    /\ bindings = {}
    /\ now = 0
    /\ used = {}
    /\ touch = [x \in NodeNames |-> [last |-> 0, steady |-> TRUE]]
    /\ resourceFlag = TRUE
    /\ services = {}
    /\ settled = FALSE
    /\ proxies = <<>>
    /\ response = [status |-> "none", upstream |-> <<>>, seq |-> 0]
    /\ call \in [fn : {"selectNode"}, pod : SelectPods, nodes : CandidateLists,
                 done : {FALSE}, result : {SelectError("")}]
    /\ tasks = NotStarted

\* the call returns
SelectNode ==
    /\ call.fn = "selectNode"
    /\ ~call.done
    /\ call' = [call EXCEPT
                  !.done = TRUE,
                  !.result = ResourceScheduler_selectNode(call.pod, call.nodes)]
    /\ UNCHANGED <<clusterVars, tasks, serviceVars, lbVars>>

\* direct calls of the resource-aware selection, one per behaviour
SpecSelect == InitSelect /\ [][SelectNode]_vars

-----------------------------------------------------------------------------
(* Services whose names hold dots, and the proxy table *)

\* (namespace, name) pairs that pass name validation; the last two make
\* the same key "s.default.default"
DottedServices ==
    {<<"default", "s">>, <<"default", "s.default">>, <<"default.default", "s">>}

\* services of any valid name and the refresh of the proxy table
SpecTable ==
    /\ Init
    /\ [][
       \/ \E id \in DottedServices :
              createServiceInNamespace(id[1], id[2], [app |-> "web"],
                                       <<ServicePort("", 80, 8080)>>)
       \/ UpdateService
       \/ \E id \in DottedServices : deleteServiceFromNamespace(id[1], id[2])
       \/ Refresh
       ]_vars

-----------------------------------------------------------------------------
(* Direct calls of the repository's resource operations *)

\* the pod rows a caller hands to the repository: two namespaces, and two
\* contents per key
StoreRows ==
    {[uid |-> PodUID(ns, name), namespace |-> ns, name |-> name,
      metadata |-> [ok |-> TRUE, labels |-> [app |-> "web"]],
      nodeSelector |-> EmptyMap, requests |-> NoRequests, nodeName |-> "n1",
      phase |-> "Running", conditions |-> <<Cond("Ready", "True")>>,
      podIP |-> ip, containerStatuses |-> <<TRUE>>,
      ports |-> <<ContainerPort("http", 8080)>>] :
        ns \in {"default", "prod"}, name \in PodNames,
        ip \in {"10.0.0.1", "10.0.0.2"}}

StoreKeys == {PodKey(row) : row \in StoreRows}

HasResource(key) == \E p \in pods : PodKey(p) = key

\* what a repository call returns: the error ("" for nil) and the rows read
Returned(fn, key, err, rows) ==
    [fn |-> fn, key |-> key, err |-> err, rows |-> rows,
     seq |-> IF "seq" \in DOMAIN call THEN 1 - call.seq ELSE 0]

\* an INSERT OR REPLACE in place of the INSERT
CreateOrReplaceResource(row) ==
    /\ pods' = {p \in pods : PodKey(p) # PodKey(row)} \cup {row}
    /\ call' = Returned("CreateResource", PodKey(row), "", {row})
    /\ UNCHANGED <<nodes, bindings, now, used, touch, resourceFlag, tasks,
                   serviceVars, lbVars>>

\* an INSERT that leaves the metadata column out
CreateResourceWithoutMetadata(row) ==
    /\ pods' = IF HasResource(PodKey(row)) THEN pods
                ELSE pods \cup {[row EXCEPT !.metadata =
                                               [ok |-> FALSE, labels |-> EmptyMap]]}
    /\ call' = Returned("CreateResource", PodKey(row),
                        IF HasResource(PodKey(row))
                        THEN "UNIQUE constraint failed" ELSE "",
                        {row})
    /\ UNCHANGED <<nodes, bindings, now, used, touch, resourceFlag, tasks,
                   serviceVars, lbVars>>

\* CreateResource: one INSERT; UNIQUE(kind, namespace, name) rejects a
\* second row under the key
CreateResource(row) ==
    /\ pods' = IF HasResource(PodKey(row)) THEN pods ELSE pods \cup {row}
    /\ call' = Returned("CreateResource", PodKey(row),
                        IF HasResource(PodKey(row))
                        THEN "UNIQUE constraint failed" ELSE "",
                        {row})
    /\ UNCHANGED <<nodes, bindings, now, used, touch, resourceFlag, tasks,
                   serviceVars, lbVars>>

\* GetResource: sql.ErrNoRows becomes "resource not found"
GetResource(key) ==
    /\ call' = Returned("GetResource", key,
                        IF HasResource(key) THEN "" ELSE "resource not found",
                        {p \in pods : PodKey(p) = key})
    /\ UNCHANGED <<clusterVars, tasks, serviceVars, lbVars>>

\* an UPDATE that inserts the row when the key is missing
UpdateOrInsertResource(row) ==
    /\ pods' = {p \in pods : PodKey(p) # PodKey(row)} \cup {row}
    /\ call' = Returned("UpdateResource", PodKey(row), "", {row})
    /\ UNCHANGED <<nodes, bindings, now, used, touch, resourceFlag, tasks,
                   serviceVars, lbVars>>

\* UpdateResource: one UPDATE ... WHERE kind, namespace, name; no row
\* affected becomes "resource not found"
UpdateResource(row) ==
    /\ pods' = {IF PodKey(p) = PodKey(row) THEN row ELSE p : p \in pods}
    /\ call' = Returned("UpdateResource", PodKey(row),
                        IF HasResource(PodKey(row)) THEN ""
                        ELSE "resource not found",
                        {row})
    /\ UNCHANGED <<nodes, bindings, now, used, touch, resourceFlag, tasks,
                   serviceVars, lbVars>>

\* DeleteResource: one DELETE; no row affected becomes "resource not found"
DeleteResource(key) ==
    /\ pods' = {p \in pods : PodKey(p) # key}
    /\ call' = Returned("DeleteResource", key,
                        IF HasResource(key) THEN "" ELSE "resource not found",
                        {})
    /\ UNCHANGED <<nodes, bindings, now, used, touch, resourceFlag, tasks,
                   serviceVars, lbVars>>


\* callers of the repository, each call one statement on the database
SpecStore ==
    /\ Init
    /\ [][
       \/ \E row \in StoreRows : CreateResource(row)
       \/ \E key \in StoreKeys : GetResource(key)
       \/ \E row \in StoreRows : UpdateResource(row)
       \/ \E key \in StoreKeys : DeleteResource(key)
       ]_vars

-----------------------------------------------------------------------------
(* Direct calls of AssignPodToNode *)

\* an INSERT OR REPLACE in place of the INSERT
AssignOrReplacePodToNode(podID, nodeID) ==
    /\ bindings' = {b \in bindings : b.podID # podID} \cup
                       {[podID |-> podID, nodeID |-> nodeID, status |-> "Pending"]}
    /\ call' = Returned("AssignPodToNode", <<podID, nodeID>>, "", {})
    /\ UNCHANGED <<nodes, pods, now, used, touch, resourceFlag, tasks, serviceVars, lbVars>>

\* AssignPodToNode: one INSERT into pod_assignments (pod_id PRIMARY KEY,
\* node_id REFERENCES nodes(id)) with status Pending
AssignPodToNode(podID, nodeID) ==
    LET err == IF HasAssignment(podID)
               THEN "UNIQUE constraint failed"
               ELSE IF ForeignKeysEnforced /\ ~\E n \in NodeRows : n.uid = nodeID
               THEN "FOREIGN KEY constraint failed"
               ELSE ""
    IN /\ bindings' = IF err # "" THEN bindings
                      ELSE bindings \cup {[podID |-> podID, nodeID |-> nodeID,
                                           status |-> "Pending"]}
       /\ call' = Returned("AssignPodToNode", <<podID, nodeID>>, err, {})
       /\ UNCHANGED <<nodes, pods, now, used, touch, resourceFlag, tasks, serviceVars, lbVars>>

\* callers of AssignPodToNode while nodes come and go
SpecAssign ==
    /\ Init
    /\ [][
       \/ CreateNode
       \/ DeleteNode
       \/ \E pod \in PodNames, node \in NodeNames :
              AssignPodToNode(PodUID("default", pod), NodeUID(node))
       ]_vars

-----------------------------------------------------------------------------
(* The long-lived tasks: Start, the run loop, Stop *)

\* Start: wg.Add(1); go run()
Start(t) ==
    /\ tasks[t].pc = "new"
    /\ tasks' = [tasks EXCEPT ![t].pc = "select"]
    /\ UNCHANGED <<clusterVars, serviceVars, lbVars, callVars>>

\* the runtime's ticker: a tick is put into ticker.C, which holds one
Ticker(t) ==
    /\ tasks[t].pc \in {"select", "tick"}
    /\ ~tasks[t].ticker
    /\ tasks' = [tasks EXCEPT ![t].ticker = TRUE]
    /\ UNCHANGED <<clusterVars, serviceVars, lbVars, callVars>>

\* run: for { select { case <-ticker.C: tick; case <-stopCh: return } }.
\* A select with both channels ready takes either one.
run(t) ==
    /\ \/ /\ tasks[t].pc = "select"
          /\ tasks[t].ticker
          /\ tasks' = [tasks EXCEPT
                         ![t].pc = "tick",
                         ![t].ticker = FALSE,
                         ![t].late = @ \/ tasks[t].stopCh = "closed"]
       \/ /\ tasks[t].pc = "tick"
          /\ tasks' = [tasks EXCEPT ![t].pc = "select"]
       \/ /\ tasks[t].pc = "select"
          /\ tasks[t].stopCh = "closed"
          /\ tasks' = [tasks EXCEPT ![t].pc = "done"]
    /\ UNCHANGED <<clusterVars, serviceVars, lbVars, callVars>>

\* Stop: close(stopCh); wg.Wait()
Stop(t) ==
    /\ \/ /\ tasks[t].pc # "new"
          /\ tasks[t].stop = "none"
          /\ tasks' = [tasks EXCEPT ![t].stopCh = "closed", ![t].stop = "wait"]
       \/ /\ tasks[t].stop = "wait"
          /\ tasks[t].pc = "done"
          /\ tasks' = [tasks EXCEPT ![t].stop = "returned"]
    /\ UNCHANGED <<clusterVars, serviceVars, lbVars, callVars>>

\* the four tasks of a process, started and stopped by its main
SpecTask ==
    /\ Init
    /\ [][
       \/ \E t \in Tasks : Start(t)
       \/ \E t \in Tasks : Ticker(t)
       \/ \E t \in Tasks : run(t)
       \/ \E t \in Tasks : Stop(t)
       ]_vars

-----------------------------------------------------------------------------
(* schedulePod statement by statement, called by concurrent goroutines *)

Workers == {"w1", "w2"}

\* the calls of schedulePod in progress and the holder of schedulingLock
Attempts ==
    IF call.fn = "schedulePod" THEN call
    ELSE [fn |-> "schedulePod", lock |-> "",
          by |-> [w \in Workers |-> [pc |-> "idle"]]]

\* a Lock that does not wait for the holder
LockWithoutWaiting(w) == TRUE

\* s.schedulingLock.Lock() proceeds when no goroutine holds the mutex
Lock(w) == Attempts.lock = ""

\* schedulePod(pod, nodes): pod and nodes are what the caller read from the
\* store before the call; the deferred Unlock runs at each return
schedulePod(w) ==
    LET a == Attempts
        me == a.by[w]
        return == [a EXCEPT !.lock = "", !.by[w] = [pc |-> "idle"]]
    IN \/ /\ me.pc = "idle"
          /\ Len(getAvailableNodes) > 0
          /\ \E p \in getPendingPods :
                 call' = [a EXCEPT !.by[w] = [pc |-> "lock", pod |-> p,
                                             avail |-> getAvailableNodes]]
          /\ UNCHANGED <<clusterVars, tasks, serviceVars, lbVars>>
       \/ /\ me.pc = "lock"
          /\ Lock(w)
          /\ call' = [a EXCEPT !.lock = w, !.by[w].pc = "check"]
          /\ UNCHANGED <<clusterVars, tasks, serviceVars, lbVars>>
       \/ /\ me.pc = "check"
          /\ call' = IF HasAssignment(me.pod.uid)
                        \/ ~selectNode(me.pod, me.avail).ok
                     THEN return
                     ELSE [a EXCEPT !.by[w].pc = "assign"]
          /\ UNCHANGED <<clusterVars, tasks, serviceVars, lbVars>>
       \/ /\ me.pc = "assign"
          /\ LET node == selectNode(me.pod, me.avail).node
                 refused == \/ HasAssignment(me.pod.uid)
                            \/ /\ ForeignKeysEnforced
                               /\ ~\E n \in NodeRows : n.uid = node.uid
             IN /\ bindings' = IF refused THEN bindings
                               ELSE bindings \cup
                                      {[podID |-> me.pod.uid, nodeID |-> node.uid,
                                        status |-> "Pending"]}
                /\ call' = IF refused THEN return
                           ELSE [a EXCEPT !.by[w].pc = "update"]
          /\ UNCHANGED <<nodes, pods, now, used, touch, resourceFlag, tasks,
                         serviceVars, lbVars>>
       \/ /\ me.pc = "update"
          /\ pods' = {IF PodKey(p) = PodKey(me.pod)
                      THEN [me.pod EXCEPT
                              !.nodeName = selectNode(me.pod, me.avail).node.name,
                              !.phase = "Scheduled",
                              !.conditions = Append(@, Cond("PodScheduled", "True")),
                              !.metadata = [ok |-> FALSE, labels |-> EmptyMap]]
                      ELSE p : p \in pods}
          /\ settled' = FALSE
          /\ call' = return
          /\ UNCHANGED <<nodes, bindings, now, used, touch, resourceFlag, tasks,
                         services, lbVars>>

\* goroutines calling schedulePod while clients write pods
SpecBind ==
    /\ Init
    /\ [][
       \/ \E name \in NodeNames : createNode(name, "True", Allocatable(name))
       \/ CreatePod
       \/ \E name \in PodNames :
              storePod(name, [namespace |-> "default", labels |-> [app |-> "web"],
                              podIP |-> "", ready |-> FALSE, nodeName |-> ""])
       \/ \E name \in PodNames : updatePodInNamespace("default", name, TRUE)
       \/ \E w \in Workers : schedulePod(w)
       ]_vars

-----------------------------------------------------------------------------
(* Direct calls of findMatchingPods, buildEndpoints and extractServiceInfo *)

\* calls of findMatchingPods: a selector, a namespace and up to two pod rows
\* that differ in namespace, metadata, phase, IP and readiness
FilterCalls ==
    LET rows == [namespace : {"default", "prod"},
                 metadata : {[ok |-> TRUE, labels |-> [app |-> "web"]],
                             [ok |-> TRUE, labels |-> EmptyMap],
                             [ok |-> FALSE, labels |-> EmptyMap]},
                 phase : {"Running", "Pending"},
                 podIP : {"", "10.0.0.1"},
                 conditions : {<<>>, <<Cond("Ready", "True")>>,
                               <<Cond("Ready", "False")>>},
                 containerStatuses : {<<>>, <<TRUE>>, <<TRUE, FALSE>>}]
    IN [fn : {"findMatchingPods"},
        selector : {[app |-> "web"], [app |-> ""], EmptyMap},
        namespace : {"default"},
        pods : {<<r>> : r \in rows} \cup
               {<<r, q>> : r \in rows,
                           q \in {x \in rows : x.podIP # "" /\ x.conditions = <<>>}},
        done : {FALSE},
        result : {<<>>}]

\* calls of buildEndpoints: one running pod whose containers declare up to
\* two ports, and one service port
EndpointCalls ==
    LET declared == {ContainerPort(name, number) :
                        name \in {"http", "metrics"}, number \in {8080, 9090}}
        lists == {<<>>} \cup {<<c>> : c \in declared}
                     \cup {<<c, d>> : c \in declared, d \in declared}
    IN [fn : {"buildEndpoints"},
        pods : {<<[podIP |-> "10.0.0.1", nodeName |-> "n1", phase |-> "Running",
                   conditions |-> <<>>, containerStatuses |-> <<TRUE>>,
                   ports |-> l]>> : l \in lists},
        ports : {<<ServicePort(name, 80, target)>> :
                    name \in {"", "http"}, target \in {0, 8080, 9090}},
        done : {FALSE},
        result : {<<>>}]

InitApply ==
    /\ nodes = <<>>
    /\ pods = {}
    /\ bindings = {}
    /\ now = 0
    /\ used = {}
    /\ touch = [x \in NodeNames |-> [last |-> 0, steady |-> TRUE]]
    /\ resourceFlag = FALSE
    /\ services = {}
    /\ settled = FALSE
    /\ proxies = <<>>
    /\ response = [status |-> "none", upstream |-> <<>>, seq |-> 0]
    /\ call \in FilterCalls \cup EndpointCalls \cup
                 [fn : {"extractServiceInfo"},
                  request : {HttpRequest(host, path) :
                                host \in {<<>>, <<"s">>, <<"s", "prod">>, <<"", "prod">>,
                                          <<"s", "prod", "svc", "cluster", "local">>},
                                path \in {<<>>, <<"s">>, <<"t", "index">>,
                                          <<"", "t">>}},
                  done : {FALSE},
                  result : {<<>>}] \cup
                 {[fn |-> "selectNode",
                   name |-> [i \in 1..len |-> byte],
                   eligible |-> [i \in 1..n |->
                                    [name |-> "n", uid |-> <<"Node", i>>]],
                   hash |-> [i \in 1..limbs |-> 0],
                   i |-> 1,
                   done |-> FALSE,
                   result |-> <<>>] :
                     len \in 1..MaxNameLen, byte \in {48, 97, 122},
                     n \in 1..MaxCandidates, limbs \in {2, 4}}
    /\ tasks = NotStarted

\* the call goes on, or returns
Apply ==
    /\ ~call.done
    /\ call' =
          IF call.fn = "selectNode" /\ call.i <= Len(call.name)
          THEN LET last == IF call.i + 15 < Len(call.name) THEN call.i + 15
                           ELSE Len(call.name)
               IN [call EXCEPT
                     !.hash = hashFrom(SubSeq(call.name, call.i, last), 1, @),
                     !.i = last + 1]
          ELSE [call EXCEPT
                  !.done = TRUE,
                  !.result =
                      IF call.fn = "findMatchingPods"
                      THEN findMatchingPods(call.selector, call.pods,
                                            call.namespace)
                      ELSE IF call.fn = "buildEndpoints"
                      THEN buildEndpoints(call.pods, call.ports)
                      ELSE IF call.fn = "extractServiceInfo"
                      THEN extractServiceInfo(call.request)
                      ELSE nodeAt(call.eligible,
                                  remainder(call.hash, Len(call.eligible)))]
    /\ UNCHANGED <<clusterVars, tasks, serviceVars, lbVars>>

\* callers of the three functions, as their tests call them, and the node
\* selection of a pod name (its bytes) among a list of eligible nodes, in
\* which a step of the hash loop takes up to sixteen bytes of the name
SpecApply == InitApply /\ [][Apply]_vars

-----------------------------------------------------------------------------
(* The load balancer lock by lock, under concurrent goroutines *)

\* the goroutines inside the load balancer and its two kinds of lock: mu is
\* lb.mu, pmu the mu of the proxy of service s.  A lock records its writer
\* (w), whether a writer has called Lock and waits (waiting), and its
\* readers (r).  list is what the refresh read from the store.
Serving ==
    IF call.fn = "serve" THEN call
    ELSE [fn |-> "serve",
          mu |-> [w |-> "", waiting |-> FALSE, r |-> {}],
          pmu |-> [w |-> "", waiting |-> FALSE, r |-> {}],
          list |-> <<>>,
          by |-> [g \in {"h1", "h2", "q", "r"} |-> [pc |-> "idle", seen |-> 0]]]

\* a Lock that does not wait for the holders
CanLockAtOnce(m) == TRUE

\* sync.RWMutex: Lock proceeds when there is no writer and no reader
CanLock(m) == m.w = "" /\ m.r = {}

\* sync.RWMutex: RLock proceeds when no writer holds the lock or waits for it
CanRLock(m) == m.w = "" /\ ~m.waiting

\* an RUnlock that is left out
RUnlockSkipped(m, g) == m

RUnlock(m, g) == [m EXCEPT !.r = @ \ {g}]

\* handleRequest for a request that resolves to service s in default, and
\* the getNextHealthyEndpoint it calls: the table is read under lb.mu.RLock,
\* the cursor is read (seen) and written back one higher under sp.mu.Lock
HandleRequest(g) ==
    LET a == Serving
        me == a.by[g]
        key == ProxyKey("s", "default")
    IN \/ /\ me.pc = "idle"
          /\ CanRLock(a.mu)
          /\ key \in DOMAIN proxies => proxies[key].current < MaxDispatch
          /\ call' = [a EXCEPT !.mu.r = @ \cup {g}, !.by[g].pc = "lookup"]
          /\ UNCHANGED <<clusterVars, tasks, serviceVars, lbVars>>
       \/ /\ me.pc = "lookup"
          /\ call' = [a EXCEPT !.mu = RUnlock(@, g),
                               !.by[g].pc = IF key \in DOMAIN proxies
                                            THEN "lock" ELSE "idle"]
          /\ UNCHANGED <<clusterVars, tasks, serviceVars, lbVars>>
       \/ /\ me.pc = "lock"
          /\ CanLock(a.pmu)
          /\ call' = [a EXCEPT !.pmu.w = g, !.by[g].pc = "read"]
          /\ UNCHANGED <<clusterVars, tasks, serviceVars, lbVars>>
       \/ /\ me.pc = "read"
          /\ call' = IF Len(healthyEndpoints(proxies[key])) = 0
                     THEN [a EXCEPT !.pmu.w = "", !.by[g].pc = "idle"]
                     ELSE [a EXCEPT !.by[g] = [pc |-> "incr",
                                               seen |-> proxies[key].current]]
          /\ UNCHANGED <<clusterVars, tasks, serviceVars, lbVars>>
       \/ /\ me.pc = "incr"
          /\ proxies' = [proxies EXCEPT ![key].current = me.seen + 1]
          /\ call' = [a EXCEPT !.pmu.w = "",
                               !.by[g] = [pc |-> "idle", seen |-> 0]]
          /\ UNCHANGED <<clusterVars, tasks, serviceVars, response>>

\* GetServiceEndpoints("s", "default"): lb.mu.RLock, then the proxy's
\* mu.RLock when the table has the proxy; both are released at the return
GetServiceEndpoints(g) ==
    LET a == Serving
        me == a.by[g]
        key == ProxyKey("s", "default")
    IN /\ \/ /\ me.pc = "idle"
             /\ CanRLock(a.mu)
             /\ call' = [a EXCEPT !.mu.r = @ \cup {g}, !.by[g].pc = "lookup"]
          \/ /\ me.pc = "lookup"
             /\ call' = IF key \in DOMAIN proxies
                        THEN [a EXCEPT !.by[g].pc = "rlock"]
                        ELSE [a EXCEPT !.mu = RUnlock(@, g),
                                       !.by[g].pc = "idle"]
          \/ /\ me.pc = "rlock"
             /\ CanRLock(a.pmu)
             /\ call' = [a EXCEPT !.pmu.r = @ \cup {g}, !.by[g].pc = "copy"]
          \/ /\ me.pc = "copy"
             /\ call' = [a EXCEPT !.pmu = RUnlock(@, g), !.mu = RUnlock(@, g),
                                  !.by[g].pc = "idle"]
       /\ UNCHANGED <<clusterVars, tasks, serviceVars, lbVars>>

\* UpdateServices by the goroutine of watchServices: the services are
\* listed, lb.mu.Lock is called and obtained, each listed service's proxy is
\* updated under its own mu.Lock or made, and lb.mu is unlocked
UpdateServices ==
    LET a == Serving
        me == a.by["r"]
    IN \/ /\ me.pc = "idle"
          /\ \E list \in Listings(services) :
                 call' = [a EXCEPT !.list = list, !.mu.waiting = TRUE,
                                   !.by["r"].pc = "lock"]
          /\ UNCHANGED <<clusterVars, tasks, serviceVars, lbVars>>
       \/ /\ me.pc = "lock"
          /\ CanLock(a.mu)
          /\ call' = [a EXCEPT !.mu.w = "r", !.mu.waiting = FALSE,
                               !.by["r"].pc = "update"]
          /\ UNCHANGED <<clusterVars, tasks, serviceVars, lbVars>>
       \/ /\ me.pc = "update"
          /\ (\E i \in 1..Len(a.list) :
                 ProxyKey(a.list[i].name, a.list[i].namespace) \in DOMAIN proxies)
                 => CanLock(a.pmu)
          /\ LET table == upsertProxies(proxies, a.list)
                 currentServices ==
                     {ProxyKey(a.list[i].name, a.list[i].namespace) :
                         i \in 1..Len(a.list)}
             IN proxies' = [k \in DOMAIN table \cap currentServices |->
                               table[k]]
          /\ call' = [a EXCEPT !.by["r"].pc = "unlock"]
          /\ UNCHANGED <<clusterVars, tasks, serviceVars, response>>
       \/ /\ me.pc = "unlock"
          /\ call' = [a EXCEPT !.mu.w = "", !.list = <<>>,
                               !.by["r"].pc = "idle"]
          /\ UNCHANGED <<clusterVars, tasks, serviceVars, lbVars>>

\* two request handlers, an endpoint query and the refresh run side by side
\* while a client posts service s and writes its endpoints; every goroutine
\* that can go on is scheduled again, and a goroutine waiting for a lock
\* that keeps coming free gets it
SpecServe ==
    /\ Init
    /\ [][
       \/ createServiceInNamespace("default", "s", [app |-> "web"],
                                   <<ServicePort("", 80, 8080)>>)
       \/ \E endpoints \in {<<>>, <<Endpoint("10.0.0.9", 8080, TRUE, "n1")>>,
                             MixedEndpoints} :
              updateServiceInNamespace("default", "s", [app |-> "web"],
                                       <<ServicePort("", 80, 8080)>>, endpoints)
       \/ \E g \in {"h1", "h2"} : HandleRequest(g)
       \/ GetServiceEndpoints("q")
       \/ UpdateServices
       ]_vars
    /\ \A g \in {"h1", "h2"} : SF_vars(HandleRequest(g))
    /\ SF_vars(GetServiceEndpoints("q"))
    /\ SF_vars(UpdateServices)

-----------------------------------------------------------------------------
(* The node agent's pod manager over a container runtime *)

\* the pod manager (pods by UID, containerIDs by <<UID, container name>>) and
\* the runtime's containers by ID.  Kept for the properties: the list of the
\* last call (desired), whether a creation failed in it (failed), whether it
\* repeated the list of a call without failure (repeated), and the number of
\* containers it created or removed (ops).
Agent ==
    IF call.fn = "SyncPods" THEN call
    ELSE [fn |-> "SyncPods", containers |-> <<>>, pods |-> <<>>,
          containerIDs |-> <<>>, desired |-> <<>>, failed |-> FALSE,
          repeated |-> FALSE, ops |-> 0]

\* deletePod for each pod of uids as the manager knows it: the containers
\* whose IDs the manager has are stopped and removed, and their IDs dropped
deletePod(pm, uids) ==
    LET keys == {k \in DOMAIN pm.containerIDs :
                    /\ k[1] \in uids
                    /\ \E i \in 1..Len(pm.pods[k[1]].containers) :
                           pm.pods[k[1]].containers[i].name = k[2]}
        ids == {pm.containerIDs[k] : k \in keys}
    IN [pm EXCEPT
          !.containers = [id \in DOMAIN @ \ ids |-> @[id]],
          !.containerIDs = [k \in DOMAIN @ \ keys |-> @[k]],
          !.ops = @ + Cardinality(keys)]

\* createPod: the containers are created and started in order, up to the
\* one whose CreateContainer fails (fail, a <<UID, container name>>); the
\* runtime names a container's ID after the container's name
createPod(pm, pod, fail) ==
    LET n == Len(pod.containers)
        broken == {i \in 1..n : <<pod.uid, pod.containers[i].name>> = fail}
        made == {i \in 1..n : \A j \in broken : i < j}
        entry(id) == LET i == CHOOSE j \in made : pod.containers[j].name = id
                     IN [image |-> pod.containers[i].image, state |-> "running"]
        names == {pod.containers[i].name : i \in made}
    IN [err |-> broken # {},
        pm |-> [pm EXCEPT
                  !.containers = [id \in DOMAIN @ \cup names |->
                                     IF id \in names THEN entry(id) ELSE @[id]],
                  !.containerIDs =
                      [k \in DOMAIN @ \cup {<<pod.uid, id>> : id \in names} |->
                          IF k[1] = pod.uid /\ k[2] \in names THEN k[2]
                          ELSE @[k]],
                  !.ops = @ + Cardinality(made),
                  !.failed = @ \/ broken # {}]]

\* podNeedsUpdate: another number of containers, or another image at some
\* position (the pods of the model carry no environment variables)
podNeedsUpdate(oldPod, newPod) ==
    \/ Len(oldPod.containers) # Len(newPod.containers)
    \/ \E i \in 1..Len(newPod.containers) :
           newPod.containers[i].image # oldPod.containers[i].image

\* the second loop of SyncPods, from the i-th desired pod on: an unknown pod
\* is created and recorded when its creation succeeds; a known pod that
\* needs an update is deleted, created and recorded when that succeeds
RECURSIVE syncDesired(_, _, _, _)
syncDesired(pm, desiredPods, i, fail) ==
    IF i > Len(desiredPods) THEN pm
    ELSE LET pod == desiredPods[i]
             known == pod.uid \in DOMAIN pm.pods
             made == createPod(IF known THEN deletePod(pm, {pod.uid}) ELSE pm,
                               pod, fail)
             recorded == [made.pm EXCEPT
                            !.pods = [u \in DOMAIN @ \cup {pod.uid} |->
                                         IF u = pod.uid THEN pod ELSE @[u]]]
         IN syncDesired(
                IF known /\ ~podNeedsUpdate(pm.pods[pod.uid], pod) THEN pm
                ELSE IF made.err THEN made.pm
                ELSE recorded,
                desiredPods, i + 1, fail)

\* SyncPods(desiredPods): the known pods that are no longer desired are
\* deleted and forgotten, then the desired pods are created or updated
SyncPods(desiredPods, fail) ==
    LET pm == Agent
        gone == {u \in DOMAIN pm.pods :
                    \A i \in 1..Len(desiredPods) : desiredPods[i].uid # u}
        start == [pm EXCEPT !.ops = 0, !.failed = FALSE,
                            !.repeated = /\ call.fn = "SyncPods"
                                         /\ ~pm.failed
                                         /\ desiredPods = pm.desired,
                            !.desired = desiredPods]
        deleted == [deletePod(start, gone) EXCEPT
                      !.pods = [u \in DOMAIN @ \ gone |-> @[u]]]
    IN /\ call' = syncDesired(deleted, desiredPods, 1, fail)
       /\ UNCHANGED <<clusterVars, tasks, serviceVars, lbVars>>

\* the agent calls SyncPods with the pods bound to its node, again and
\* again: pod u1 with one or two containers or a newer image, pod u2 with
\* one container; in a call the creation of one container may fail
SpecAgent ==
    /\ Init
    /\ [][\E fail \in {<<>>, <<"u1", "web">>, <<"u1", "log">>, <<"u2", "api">>} :
          \E first \in {[uid |-> "u1", containers |-> c] :
                           c \in {<<[name |-> "web", image |-> "nginx:1"]>>,
                                  <<[name |-> "web", image |-> "nginx:2"]>>,
                                  <<[name |-> "web", image |-> "nginx:1"],
                                    [name |-> "log", image |-> "fluentd:1"]>>}} :
             LET second == [uid |-> "u2",
                            containers |-> <<[name |-> "api", image |-> "api:1"]>>]
             IN \E desiredPods \in {<<>>, <<first>>, <<second>>,
                                     <<first, second>>, <<second, first>>} :
                    SyncPods(desiredPods, fail)
       ]_vars

-----------------------------------------------------------------------------
(* Pods posted through the API, their services, and the scheduler *)

\* a client posts pods (any labels it sends are not stored), reports them
\* ready and posts services; the scheduler and the reconciler tick
SpecPosted ==
    /\ Init
    /\ [][
       \/ \E name \in NodeNames : createNode(name, "True", Allocatable(name))
       \/ CreatePod
       \/ UpdatePod
       \/ CreateService
       \/ SchedulerTick
       \/ ReconcilerTick
       ]_vars

-----------------------------------------------------------------------------
(* Failover over a store that may fail under the monitor *)

\* a monitor tick may find the store failing when it lists a node's
\* assignments or when it works on a pod; the scheduler and the monitor keep
\* ticking, and a monitor tick in which every store operation succeeds comes
\* again and again
SpecFailover ==
    /\ Init
    /\ [][
       \/ \E name \in NodeNames : createNode(name, "True", Allocatable(name))
       \/ \E name \in PodNames :
              createPodInNamespace("default", name, EmptyMap, NoRequests, "")
       \/ AdvanceTime
       \/ SchedulerTick
       \/ \E nf \in [NodeNames -> {"none", "listAssignments"}] :
          \E pf \in [{b.podID : b \in bindings} ->
                        {"none", "setStatus", "listPods", "updatePod"}] :
             checkNodeHealth(nf, pf)
       ]_vars
    /\ WF_vars(SchedulerTick)
    /\ WF_vars(MonitorTick)

-----------------------------------------------------------------------------
(* The ingress API over a backend that may fail *)

\* the error a repository call returns: a backend failure as it is, else
\* the constraint failure of a create or the missing row of the others
repositoryError(op, key, io) ==
    IF io THEN "disk I/O error"
    ELSE IF op = "create"
    THEN (IF HasResource(key) THEN "UNIQUE constraint failed" ELSE "")
    ELSE (IF HasResource(key) THEN "" ELSE "resource not found")

\* the answer of a handler: the status code and the repository's error,
\* and whether the backend failed during the request
Replied(fn, key, status, err, io) ==
    [fn |-> fn, key |-> key, status |-> status, err |-> err, io |-> io,
     seq |-> IF "seq" \in DOMAIN call THEN 1 - call.seq ELSE 0]

\* POST /api/v1/pods: 409 on any error of CreateResource
postPod(ns, name, spec, io) ==
    LET err == repositoryError("create", <<ns, name>>, io)
    IN /\ pods' = IF err # "" THEN pods
                  ELSE pods \cup {createdPod(ns, name, spec.nodeSelector,
                                             spec.requests, spec.nodeName)}
       /\ call' = Replied("POST", <<ns, name>>,
                          IF err # "" THEN "409" ELSE "201", err, io)
       /\ settled' = FALSE
       /\ UNCHANGED <<nodes, bindings, now, used, touch, resourceFlag, tasks,
                      services, lbVars>>

\* GET /api/v1/pods/{name}: 404 on any error of GetResource
getPodFromNamespace(ns, name, io) ==
    LET err == repositoryError("get", <<ns, name>>, io)
    IN /\ call' = Replied("GET", <<ns, name>>,
                          IF err # "" THEN "404" ELSE "200", err, io)
       /\ UNCHANGED <<clusterVars, tasks, serviceVars, lbVars>>

\* PUT /api/v1/pods/{name}: 404 on any error of UpdateResource
putPod(ns, name, ready, io) ==
    LET err == repositoryError("update", <<ns, name>>, io)
    IN /\ pods' = IF err # "" THEN pods
                  ELSE {IF PodKey(p) = <<ns, name>>
                        THEN [p EXCEPT
                                !.metadata = [ok |-> FALSE, labels |-> EmptyMap],
                                !.phase = "Running",
                                !.conditions =
                                    IF ready THEN <<Cond("Ready", "True")>>
                                    ELSE <<>>,
                                !.containerStatuses = <<ready>>]
                        ELSE p : p \in pods}
       /\ call' = Replied("PUT", <<ns, name>>,
                          IF err # "" THEN "404" ELSE "200", err, io)
       /\ settled' = FALSE
       /\ UNCHANGED <<nodes, bindings, now, used, touch, resourceFlag, tasks,
                      services, lbVars>>

\* DELETE /api/v1/pods/{name}: 404 on any error of DeleteResource
removePod(ns, name, io) ==
    LET err == repositoryError("delete", <<ns, name>>, io)
    IN /\ pods' = IF err # "" THEN pods
                  ELSE {p \in pods : PodKey(p) # <<ns, name>>}
       /\ call' = Replied("DELETE", <<ns, name>>,
                          IF err # "" THEN "404" ELSE "200", err, io)
       /\ settled' = FALSE
       /\ UNCHANGED <<nodes, bindings, now, used, touch, resourceFlag, tasks,
                      services, lbVars>>

\* clients of the pod endpoints, over a backend that may fail
SpecIngress ==
    /\ Init
    /\ [][
       \/ \E ns \in Namespaces, name \in PodNames, spec \in PodSpecs, io \in BOOLEAN :
              postPod(ns, name, spec, io)
       \/ \E ns \in Namespaces, name \in PodNames, io \in BOOLEAN :
              getPodFromNamespace(ns, name, io)
       \/ \E ns \in Namespaces, name \in PodNames, ready \in BOOLEAN, io \in BOOLEAN :
              putPod(ns, name, ready, io)
       \/ \E ns \in Namespaces, name \in PodNames, io \in BOOLEAN :
              removePod(ns, name, io)
       ]_vars

-----------------------------------------------------------------------------
(* Properties of scheduling and failover *)

Conditions(p) == {p.conditions[i] : i \in 1..Len(p.conditions)}

ReadyNodeNames == {n.name : n \in {m \in NodeRows : m.ready = "True"}}

\* the pod as a tick without store errors, taken now, would leave it
AfterTick(p) == scheduledPod(p, getAvailableNodes, "none")

\* C1: every pod with an empty nodeName and a phase other than Scheduled,
\* for which a Ready node is eligible, is bound to one Ready node by a
\* scheduler tick whose store operations succeed; that includes a pod whose
\* earlier bind stopped part-way on a store error.
C1_PendingPodIsBound ==
    \A p \in pods :
        (isPending(p) /\ selectNode(p, getAvailableNodes).ok) =>
            /\ AfterTick(p).phase = "Scheduled"
            /\ AfterTick(p).nodeName \in ReadyNodeNames

\* C2: each pod with a non-empty nodeName has exactly one assignment row,
\* and the row's nodeID is the UID of a node whose name is that nodeName.
C2_BoundPodHasItsRow ==
    \A p \in pods :
        p.nodeName # "" =>
            /\ Cardinality({b \in bindings : b.podID = p.uid}) = 1
            /\ \A b \in bindings :
                   b.podID = p.uid =>
                       \E n \in NodeRows :
                           n.uid = b.nodeID /\ n.name = p.nodeName

\* the monitor has failed the pod over: nodeName cleared, phase Failed,
\* a NodeFailed condition
FailedOver(p) ==
    /\ p.nodeName = ""
    /\ p.phase = "Failed"
    /\ Cond("NodeFailed", "True") \in Conditions(p)

\* C3: a pod the monitor has failed over is bound again (nodeName set, phase
\* Scheduled) by the next scheduler tick that sees an eligible Ready node.
C3_FailedOverPodIsRebound ==
    \A p \in pods :
        (FailedOver(p) /\ selectNode(p, getAvailableNodes).ok) =>
            /\ AfterTick(p).phase = "Scheduled"
            /\ AfterTick(p).nodeName # ""

\* C4: after a monitor tick, every node whose Ready condition carries a
\* heartbeat time older than the heartbeat timeout has Ready = False.
C4_StaleNodesAreNotReady ==
    [][MonitorTick =>
         \A i \in 1..Len(nodes') :
             now - nodes'[i].hb > HeartbeatTimeout =>
                 nodes'[i].ready = "False"]_vars

C4_Witness ==
    \E n \in NodeRows : now - n.hb > HeartbeatTimeout /\ n.ready = "False"

\* C5: after the monitor tick in which a node goes to Ready = False, every
\* assignment row to that node has status NodeFailed, and the pod of each
\* such row has an empty nodeName, phase Failed and a NodeFailed condition.
C5_FailoverIsComplete ==
    [][MonitorTick =>
         \A i \in 1..Len(nodes) :
             (nodes[i].ready # "False" /\ nodes'[i].ready = "False") =>
                 \A b \in bindings :
                     b.nodeID = nodes[i].uid =>
                         /\ [b EXCEPT !.status = "NodeFailed"] \in bindings'
                         /\ \A p \in pods' : p.uid = b.podID => FailedOver(p)]_vars

C5_Witness ==
    \E n \in NodeRows, b \in bindings, p \in pods :
        /\ n.ready = "False"
        /\ b.nodeID = n.uid /\ b.status = "NodeFailed"
        /\ p.uid = b.podID /\ FailedOver(p)

Fits(p, n) ==
    LET req == calculatePodResourceRequests(p)
        have == getNodeAvailableResources(n)
    IN req.ok /\ have.ok /\ req.cpu <= have.cpu /\ req.memory <= have.memory

\* C7: with the resource-scheduler flag set, no pod is assigned by a tick to
\* a node whose allocatable CPU or memory is below the pod's summed requests.
C7_NoAssignmentBeyondCapacity ==
    resourceFlag =>
        \A b \in bindings, p \in pods, n \in NodeRows :
            (b.podID = p.uid /\ b.nodeID = n.uid) => Fits(p, n)

-----------------------------------------------------------------------------
(* Properties of the endpoint reconciler *)

\* the pod backs the endpoint for the service: same namespace, the
\* endpoint's IP, labels that match the selector, ready
Backs(p, e, svc) ==
    /\ p.namespace = svc.namespace
    /\ p.podIP = e.ip
    /\ p.metadata.ok
    /\ matchesSelector(p.metadata.labels, svc.selector)
    /\ isPodReady(p)

C10_ReorderingWritesNothing ==
    settled =>
        \A podList \in Listings(pods) :
            \A svc \in services : reconcileService(svc, podList) = svc

\* C33: once a reconciler tick has completed, every ready pod (Running, with
\* a pod IP, Ready) that was posted through the API with labels satisfying a
\* service's selector, in the service's namespace, is among that service's
\* endpoints, before and after the scheduler has bound it.
C33_PostedPodsBecomeEndpoints ==
    settled =>
        \A svc \in services, p \in pods :
            /\ svc.selector # EmptyMap
            /\ p.namespace = svc.namespace
            /\ isPodReady(p)
            => \E i \in 1..Len(svc.endpoints) : svc.endpoints[i].ip = p.podIP

-----------------------------------------------------------------------------
(* Properties of the load balancer *)

\* how often e occurs in picks[i..j]
Chosen(picks, i, j, e) == Cardinality({n \in i..j : picks[n] = e})

\* C9: over any K consecutive dispatches to a service whose set of N ready
\* endpoints stays the same, refreshes of the unchanged list included, each
\* ready endpoint is chosen at least K \div N times.
C9_RoundRobinIsFair ==
    \A k \in DOMAIN proxies :
        LET proxy == proxies[k]
            ready == ReadyEndpoints(proxy.endpoints)
        IN \A i, j \in 1..Len(proxy.picks) :
               i <= j =>
                   \A e \in ready :
                       Chosen(proxy.picks, i, j, e)
                           >= (j - i + 1) \div Cardinality(ready)

-----------------------------------------------------------------------------
(* Properties of the stored endpoints and of the assignment rows *)

\* every service that exists before and after the step keeps its endpoints
EndpointsKept ==
    \A svc \in services :
        \A after \in services' :
            ServiceKey(after) = ServiceKey(svc) =>
                after.endpoints = svc.endpoints

\* C11: only a reconciler tick changes a stored status.endpoints list; every
\* other step, an update of the service through the API included, leaves
\* the endpoints of each service as they were.
C11_OnlyReconcilerWritesEndpoints ==
    [][ReconcilerTick \/ EndpointsKept]_vars

\* C12: a pod whose spec.nodeName is empty has no assignment row.
C12_UnboundPodHasNoRow ==
    \A p \in pods : p.nodeName = "" => ~HasAssignment(p.uid)

\* how often e occurs in list
Occurrences(list, e) == Cardinality({i \in 1..Len(list) : list[i] = e})

\* the two lists hold the same endpoints the same number of times
SameEndpoints(a, b) ==
    \A e \in {a[i] : i \in 1..Len(a)} \cup {b[i] : i \in 1..Len(b)} :
        Occurrences(a, e) = Occurrences(b, e)

\* C13: after a completed reconciler tick, the stored endpoints of every
\* service are, order aside, the list built from the pods that are in the
\* service's namespace, match its selector and are ready, whatever was
\* stored before the tick.
C13_StoredEndpointsAreTheBuiltOnes ==
    settled =>
        \A svc \in services :
            \A podList \in Listings(pods) :
                SameEndpoints(svc.endpoints,
                              buildEndpoints(findMatchingPods(svc.selector,
                                                 podList, svc.namespace),
                                             svc.ports))

-----------------------------------------------------------------------------
(* Properties of endpoint selection and of the proxy table *)

\* the step dispatches a request to the proxy under key k
Dispatched(k) ==
    /\ k \in DOMAIN proxies
    /\ k \in DOMAIN proxies'
    /\ proxies'[k].current = proxies[k].current + 1

\* the proxy has answered only dispatches since it was made with this list
Sequential(proxy) == proxy.current = Len(proxy.picks)

\* C14: a dispatch forwards to an endpoint that is ready and is in the
\* proxy's endpoint list; over (E1 ready, E2 not ready, E3 ready) sequential
\* dispatches alternate E1, E3, and ten of them give E1 and E3 five each
\* and E2 none.
C14_SelectionIsReadyAndListed ==
    /\ [][\A k \in DOMAIN proxies :
            Dispatched(k) =>
                /\ response'.status = "forwarded"
                /\ response'.upstream[1].ready
                /\ \E i \in 1..Len(proxies[k].endpoints) :
                       proxies[k].endpoints[i] = response'.upstream[1]]_vars
    /\ [](\A k \in DOMAIN proxies :
            LET proxy == proxies[k]
            IN proxy.endpoints = MixedEndpoints /\ Sequential(proxy) =>
                /\ \A i \in 1..Len(proxy.picks) :
                       proxy.picks[i] = IF i % 2 = 1 THEN MixedEndpoints[1]
                                        ELSE MixedEndpoints[3]
                /\ Len(proxy.picks) = 10 =>
                       /\ Occurrences(proxy.picks, MixedEndpoints[1]) = 5
                       /\ Occurrences(proxy.picks, MixedEndpoints[3]) = 5
                       /\ Occurrences(proxy.picks, MixedEndpoints[2]) = 0)

C14_Witness ==
    \E k \in DOMAIN proxies :
        /\ proxies[k].endpoints = MixedEndpoints
        /\ Sequential(proxies[k])
        /\ Len(proxies[k].picks) = 10
        /\ response.status = "forwarded"

-----------------------------------------------------------------------------
(* Properties of resource-aware node selection *)

\* the node passes the pod's nodeSelector
Passes(pod, node) ==
    \A k \in DOMAIN pod.nodeSelector :
        k \in DOMAIN node.labels /\ node.labels[k] = pod.nodeSelector[k]

\* the positions of the nodes that pass the selector, expose cpu and memory
\* allocatable, and have at least the pod's request of both
Survivors(pod, ns) ==
    LET req == calculatePodResourceRequests(pod)
    IN {i \in 1..Len(ns) :
           LET have == getNodeAvailableResources(ns[i])
           IN /\ Passes(pod, ns[i])
              /\ have.ok
              /\ have.cpu >= req.cpu
              /\ have.memory >= req.memory}

\* the score x is lower than the score y (quotients num / den)
Lower(x, y) == x.num * y.den < y.num * x.den

\* max(cpu_request / cpu_alloc, mem_request / mem_alloc)
Pressure(pod, node) ==
    LET req == calculatePodResourceRequests(pod)
        have == getNodeAvailableResources(node)
        cpu == [num |-> req.cpu, den |-> have.cpu]
        memory == [num |-> req.memory, den |-> have.memory]
    IN IF Lower(cpu, memory) THEN memory ELSE cpu

\* the first survivor of lowest score
Best(pod, ns) ==
    CHOOSE i \in Survivors(pod, ns) :
        \A j \in Survivors(pod, ns) :
            /\ ~Lower(Pressure(pod, ns[j]), Pressure(pod, ns[i]))
            /\ j < i => Lower(Pressure(pod, ns[i]), Pressure(pod, ns[j]))

Resolves(r) ==
    /\ extractServiceInfo(r)[1] # ""
    /\ ProxyKey(extractServiceInfo(r)[1], extractServiceInfo(r)[2])
           \in DOMAIN proxies

\* C16: a request is answered 404 exactly when its service name does not
\* resolve or the resolved key has no proxy, and 503 exactly when the proxy
\* exists and none of its endpoints is ready; in both cases nothing is
\* forwarded and no cursor moves.
C16_NotFoundAndUnavailable ==
    [][\A r \in HttpRequests :
          handleRequest(r) =>
              LET info == extractServiceInfo(r)
                  key == ProxyKey(info[1], info[2])
              IN /\ response'.status = "404" <=> ~Resolves(r)
                 /\ response'.status = "503" <=>
                        /\ Resolves(r)
                        /\ \A i \in 1..Len(proxies[key].endpoints) :
                               ~proxies[key].endpoints[i].ready
                 /\ response'.status \in {"404", "503"} =>
                        /\ response'.upstream = <<>>
                        /\ proxies' = proxies]_vars

\* a 503 from a proxy whose endpoints are all not ready
C16_Witness ==
    /\ response.status = "503"
    /\ \E k \in DOMAIN proxies :
           /\ proxies[k].endpoints # <<>>
           /\ \A i \in 1..Len(proxies[k].endpoints) :
                  ~proxies[k].endpoints[i].ready

\* C17: after a table refresh the table holds a proxy for exactly the
\* stored services, each with the endpoints stored in its service's status
\* (a proxy of before is kept, with its cursor unless that is out of range).
C17_TableMirrorsStore ==
    [][Refresh =>
          /\ DOMAIN proxies' =
                 {ProxyKey(svc.name, svc.namespace) : svc \in services}
          /\ \A svc \in services :
                 LET k == ProxyKey(svc.name, svc.namespace)
                 IN /\ proxies'[k].endpoints = svc.endpoints
                    /\ proxies'[k].current =
                           IF /\ k \in DOMAIN proxies
                              /\ proxies[k].current < Len(svc.endpoints)
                           THEN proxies[k].current ELSE 0]_vars

\* C18: a cursor changes only by going up by one in a dispatch that is
\* forwarded, or by going back to 0 in a replacement of the endpoint list
\* for which it is out of range; a replacement with the cursor in range
\* leaves it as it is.
C18_CursorMovesByOneOrRestarts ==
    [][\A k \in DOMAIN proxies \cap DOMAIN proxies' :
          LET before == proxies[k].current
              after == proxies'[k].current
          IN /\ after \in {before, before + 1, 0}
             /\ after = before + 1 =>
                    /\ Dispatch
                    /\ response'.status = "forwarded"
                    /\ proxies'[k].endpoints = proxies[k].endpoints
             /\ (\E r \in HttpRequests :
                    /\ handleRequest(r)
                    /\ response'.status = "forwarded"
                    /\ ProxyKey(extractServiceInfo(r)[1],
                                extractServiceInfo(r)[2]) = k)
                    => after = before + 1
             /\ after # before /\ after = 0 =>
                    /\ Refresh
                    /\ before >= Len(proxies'[k].endpoints)
             /\ Refresh /\ before < Len(proxies'[k].endpoints) =>
                    after = before]_vars

\* a replacement that changed the ready endpoints has kept a cursor that
\* was in range
C18_Witness ==
    \E k \in DOMAIN proxies :
        /\ proxies[k].current > 0
        /\ proxies[k].current < Len(proxies[k].endpoints)
        /\ proxies[k].picks = <<>>

-----------------------------------------------------------------------------
(* Properties of the resource store *)

\* C19: a create under a key that is in the store fails and leaves the
\* stored row as it is, a create under a free key stores the row, and the
\* store never holds two rows under one key, in whatever order creates for
\* the same key arrive.
C19_CreateConflicts ==
    /\ [][\A row \in StoreRows :
             CreateResource(row) =>
                 IF HasResource(PodKey(row))
                 THEN call'.err # "" /\ pods' = pods
                 ELSE call'.err = "" /\ pods' = pods \cup {row}]_vars
    /\ [](\A p, q \in pods : PodKey(p) = PodKey(q) => p = q)

\* a create was refused and the row stored under its key is another one
C19_Witness ==
    /\ call.fn = "CreateResource"
    /\ call.err # ""
    /\ \E p \in pods : PodKey(p) = call.key /\ p \notin call.rows

\* C20: Get, Update and Delete of a key that is not in the store fail with
\* "not found" and leave the store as it is; Update stores no row.
C20_MissingKeyIsNotFound ==
    [][/\ \A key \in StoreKeys :
             GetResource(key) /\ ~HasResource(key) =>
                 call'.err = "resource not found" /\ pods' = pods
       /\ \A row \in StoreRows :
             UpdateResource(row) /\ ~HasResource(PodKey(row)) =>
                 call'.err = "resource not found" /\ pods' = pods
       /\ \A key \in StoreKeys :
             DeleteResource(key) /\ ~HasResource(key) =>
                 call'.err = "resource not found" /\ pods' = pods]_vars

\* an update of a missing key was refused while other rows are stored
C20_Witness ==
    /\ call.fn = "UpdateResource"
    /\ call.err = "resource not found"
    /\ pods # {}
    /\ ~HasResource(call.key)

\* C21: the answer tells the three failures apart: a missing key is a 404,
\* a create of an existing key a 409, and a backend failure a 500, never a
\* 404 or a 409.
C21_FailuresAreToldApart ==
    "status" \in DOMAIN call =>
        /\ call.io => call.status = "500"
        /\ call.err = "resource not found" => call.status = "404"
        /\ call.err = "UNIQUE constraint failed" => call.status = "409"

C24_StopStartsNoTick ==
    \A t \in Tasks :
        /\ ~tasks[t].late
        /\ tasks[t].stop = "returned" => tasks[t].pc = "done"

\* C25: a tick leaves a pending pod for which the configured policy selects
\* no node as it is, without a new row for it, and binds the other pending
\* pods of the same tick.
C25_UnselectablePodStaysPending ==
    [][SchedulerTick =>
          \A p \in getPendingPods :
              LET avail == getAvailableNodes
                  sel == IF resourceFlag
                         THEN ResourceScheduler_selectNode(p, avail)
                         ELSE selectNode(p, avail)
              IN IF ~sel.ok
                 THEN /\ p \in pods'
                      /\ {b \in bindings' : b.podID = p.uid}
                             = {b \in bindings : b.podID = p.uid}
                 ELSE HasAssignment(p.uid)
                          \/ \E b \in bindings' : b.podID = p.uid]_vars

\* C26: at most one call of schedulePod is past the lock at any time, and
\* whatever the calls for one pod, the pod has at most one assignment row
\* and a scheduled pod names the node of its row.
C26_OneSchedulingAtATime ==
    /\ Cardinality({w \in Workers :
                      Attempts.by[w].pc \in {"check", "assign", "update"}}) <= 1
    /\ \A b, c \in bindings : b.podID = c.podID => b = c
    /\ \A p \in pods :
           p.phase = "Scheduled" =>
               \E b \in bindings :
                   b.podID = p.uid /\ b.nodeID = NodeUID(p.nodeName)

\* one call is about to write the pod while the other call, for the same
\* pod, waits for the lock
C26_Witness ==
    /\ call.fn = "schedulePod"
    /\ \E v, w \in Workers :
           /\ call.by[v].pc = "update"
           /\ call.by[w].pc = "lock"
           /\ call.by[v].pod.uid = call.by[w].pod.uid

\* C27: the scheduler's write of a pod changes only what the scheduler
\* owns: the stored container statuses, pod IP, requests, selector and
\* earlier conditions, whoever wrote them and whenever, are still stored
\* after it.  (The metadata column is left out of the comparison.)
C27_WriteKeepsOthersFields ==
    [][\A w \in Workers :
          Attempts.by[w].pc = "update" /\ schedulePod(w) =>
              \A p \in pods :
                  PodKey(p) = PodKey(Attempts.by[w].pod) =>
                      \E q \in pods' :
                          /\ PodKey(q) = PodKey(p)
                          /\ q.containerStatuses = p.containerStatuses
                          /\ q.podIP = p.podIP
                          /\ q.requests = p.requests
                          /\ q.nodeSelector = p.nodeSelector
                          /\ q.conditions =
                                 Append(p.conditions, Cond("PodScheduled", "True"))]_vars

\* C28: a bind of a pod that is stored as the scheduler read it leaves a
\* Pending row for the pod on the selected node and changes, in the pod's
\* stored row, the node name, the phase and the appended PodScheduled
\* condition and nothing else; no other pod, node or service changes.
C28_BindChangesOnlyItsFields ==
    [][\A w \in Workers :
          Attempts.by[w].pc = "update" /\ schedulePod(w) =>
              LET read == Attempts.by[w].pod
                  node == selectNode(read, Attempts.by[w].avail).node
              IN read \in pods =>
                     /\ [podID |-> read.uid, nodeID |-> node.uid,
                         status |-> "Pending"] \in bindings'
                     /\ pods' = (pods \ {read}) \cup
                            {[read EXCEPT
                                !.nodeName = node.name,
                                !.phase = "Scheduled",
                                !.conditions =
                                    Append(@, Cond("PodScheduled", "True"))]}
                     /\ UNCHANGED <<nodes, services>>]_vars

\* C29: findMatchingPods returns, in list order, exactly the pods that are
\* in the namespace, carry every key of a non-empty selector with the
\* selector's value, and are ready: Running, with an IP, and their Ready
\* condition True or, without a Ready condition, every container ready.
C29_FilterIsExact ==
    call.fn = "findMatchingPods" /\ call.done =>
        call.result =
            SelectSeq(call.pods,
                LAMBDA p :
                    LET ready == {i \in 1..Len(p.conditions) :
                                     p.conditions[i].type = "Ready"}
                    IN /\ p.namespace = call.namespace
                       /\ DOMAIN call.selector # {}
                       /\ \A k \in DOMAIN call.selector :
                              /\ k \in DOMAIN p.metadata.labels
                              /\ p.metadata.labels[k] = call.selector[k]
                       /\ p.phase = "Running"
                       /\ p.podIP # ""
                       /\ IF ready # {}
                          THEN \E i \in ready : p.conditions[i].status = "True"
                          ELSE \A i \in 1..Len(p.containerStatuses) :
                                   p.containerStatuses[i])

\* C30: the port of an endpoint is the container port named like the
\* service port when there is one, else the target port (a container port
\* of that number or the number itself), the target port being the port
\* when it is zero.
C30_NameBeforeNumber ==
    call.fn = "buildEndpoints" /\ call.done =>
        LET declared == call.pods[1].ports
            sp == call.ports[1]
            target == IF sp.targetPort = 0 THEN sp.port ELSE sp.targetPort
            named == {i \in 1..Len(declared) :
                         sp.name # "" /\ declared[i].name = sp.name}
        IN /\ Len(call.result) = 1
           /\ call.result[1].port =
                  IF named # {}
                  THEN declared[CHOOSE i \in named :
                                    \A j \in named : i <= j].containerPort
                  ELSE target

\* C31: a request resolves to the first two labels of its Host when the
\* Host has two or more, to the Host and "default" when it has one, else
\* to the first path segment and "default", and else to nothing.
C31_Resolution ==
    call.fn = "extractServiceInfo" /\ call.done =>
        LET host == call.request.host
            path == call.request.path
        IN call.result =
               CASE Len(host) >= 2 -> <<host[1], host[2]>>
                 [] Len(host) = 1 -> <<host[1], "default">>
                 [] Len(host) = 0 /\ Len(path) > 0 /\ path[1] # "" ->
                        <<path[1], "default">>
                 [] OTHER -> <<"", "">>

\* a request without a Host was resolved by its path
C31_Witness ==
    /\ call.fn = "extractServiceInfo"
    /\ call.done
    /\ call.request.host = <<>>
    /\ call.result = <<"t", "default">>

\* C32: after a monitor tick, every node whose Ready condition (appended
\* with the tick's time when the node had none) carries a heartbeat time
\* within the timeout has Ready = True, and the assignment rows to the node
\* and their pods are as before the tick.
C32_FreshNodesAreReady ==
    [][MonitorTick =>
         \A i \in 1..Len(nodes) :
             now - readyCondition(nodes[i]).hb <= HeartbeatTimeout =>
                 /\ nodes'[i].ready = "True"
                 /\ \A b \in bindings :
                        b.nodeID = nodes[i].uid =>
                            /\ b \in bindings'
                            /\ \A p \in pods : p.uid = b.podID => p \in pods']_vars

\* the monitor has written a node that is now Ready, and a pod is bound to
\* a node that is Ready
C32_Witness ==
    /\ \E n \in NodeRows :
           n.ready = "True" /\ n.lastHeartbeat > touch[n.name].last
    /\ \E n \in NodeRows, b \in bindings :
           n.ready = "True" /\ b.nodeID = n.uid /\ b.status = "Pending"

-----------------------------------------------------------------------------
(* Properties of the name hash *)

\* C34: for every valid pod name and every non-empty eligible list, the
\* basic policy's index hash(name) mod len(eligible), computed in the
\* implementation's fixed-width signed int, is in [0, len(eligible)):
\* selection returns a member of the eligible list and never aborts.
C34_IndexStaysInRange ==
    call.fn = "selectNode" /\ call.done =>
        /\ call.result.ok
        /\ \E i \in 1..Len(call.eligible) : call.result.node = call.eligible[i]

-----------------------------------------------------------------------------
(* Properties of failover under store errors *)

\* the pod named pn has an assignment row to the node named nn, whose Ready
\* status is False
BoundToNotReady(pn, nn) ==
    \E n \in NodeRows, b \in bindings :
        /\ n.name = nn /\ n.ready = "False"
        /\ b.nodeID = n.uid /\ b.podID = PodUID("default", pn)

Recovered(pn) ==
    /\ \E p \in pods : p.name = pn /\ FailedOver(p)
    /\ \A b \in bindings :
           b.podID = PodUID("default", pn) => b.status = "NodeFailed"

\* C35: under any interleaving of scheduler and monitor ticks, a pod bound
\* to a node whose Ready status is False is eventually failed over (nodeName
\* cleared, phase Failed, binding NodeFailed) unless the node stops being
\* not Ready, also when a store error interrupted an earlier tick.
C35_BoundPodsAreFailedOver ==
    \A pn \in PodNames, nn \in NodeNames :
        BoundToNotReady(pn, nn) ~> (Recovered(pn) \/ ~BoundToNotReady(pn, nn))

-----------------------------------------------------------------------------
(* Properties of the capacity of nodes *)

\* the sum of the requests of a set of pods
RECURSIVE boundTotal(_)
boundTotal(S) ==
    IF S = {} THEN Resources(0, 0)
    ELSE LET p == CHOOSE x \in S : TRUE
             r == calculatePodResourceRequests(p)
             rest == boundTotal(S \ {p})
         IN Resources(rest.cpu + r.cpu, rest.memory + r.memory)

\* C36: with the resource-aware policy configured, on every node the CPU
\* requests and the memory requests of the pods bound to it add up to no more
\* than the node's allocatable CPU and memory, after any sequence of bindings.
C36_BoundRequestsFit ==
    resourceFlag =>
        \A n \in NodeRows :
            LET have == getNodeAvailableResources(n)
                total == boundTotal({p \in pods :
                             /\ p.nodeName = n.name
                             /\ \E b \in bindings :
                                    b.podID = p.uid /\ b.nodeID = n.uid})
            IN have.ok =>
                   total.cpu <= have.cpu /\ total.memory <= have.memory

-----------------------------------------------------------------------------
(* Properties of the load balancer's locks *)

\* C37: concurrent dispatches on one proxy are serialised by the proxy's
\* lock: two dispatches that have both read the cursor and not yet written
\* it back have read different values, and each dispatch that completes
\* leaves the cursor exactly one higher than it was just before, so that no
\* increment is lost.
C37_DispatchesAreSerialised ==
    /\ [](\A g, h \in {"h1", "h2"} :
             /\ g # h
             /\ Serving.by[g].pc = "incr"
             /\ Serving.by[h].pc = "incr"
             => Serving.by[g].seen # Serving.by[h].seen)
    /\ [][\A g \in {"h1", "h2"} :
             Serving.by[g].pc = "incr" /\ Serving'.by[g].pc = "idle" =>
                 proxies'[ProxyKey("s", "default")].current
                     = proxies[ProxyKey("s", "default")].current + 1]_vars

C37_Witness ==
    /\ Serving.by["h1"].pc = "incr"
    /\ Serving.by["h1"].seen >= 2
    /\ Serving.by["h2"].pc = "lock"

\* C39: services with different (namespace, name), of names and namespaces
\* that pass validation, have different service keys, and a table refresh
\* leaves one proxy per stored service.
C39_OneProxyPerService ==
    [][Refresh =>
          /\ \A a, b \in services :
                 ServiceKey(a) # ServiceKey(b) =>
                     ProxyKey(a.name, a.namespace) # ProxyKey(b.name, b.namespace)
          /\ Cardinality(DOMAIN proxies') = Cardinality(services)]_vars

\* goroutine g holds the lock of the proxy, or the table lock
HoldsProxy(g) == Serving.pmu.w = g \/ g \in Serving.pmu.r
HoldsTable(g) == Serving.mu.w = g \/ g \in Serving.mu.r

\* C38: the locks are taken in one order, the table lock before a proxy lock
\* (no goroutine that holds a proxy lock is about to ask for the table lock),
\* and every handler, query and refresh that has started returns, holding no
\* lock once it has.
C38_LocksAreReleased ==
    /\ [](\A g \in {"h1", "h2", "q", "r"} :
             /\ HoldsProxy(g) =>
                    /\ Serving.by[g].pc # "idle"
                    /\ g = "r" => Serving.by[g].pc # "lock"
             /\ Serving.by[g].pc = "idle" => ~HoldsProxy(g) /\ ~HoldsTable(g))
    /\ \A g \in {"h1", "h2", "q", "r"} :
           (Serving.by[g].pc # "idle") ~> (Serving.by[g].pc = "idle")

C38_Witness ==
    /\ Serving.mu.waiting
    /\ "q" \in Serving.mu.r
    /\ Serving.by["q"].pc = "rlock"
    /\ Serving.pmu.w = "h1"
    /\ Serving.by["h2"].pc = "lock"

-----------------------------------------------------------------------------
(* Properties of the pod manager *)

\* the containers of the pods of a list, by container ID
Expected(desiredPods) ==
    LET slots == {<<i, j>> \in (1..Len(desiredPods)) \X (1..2) :
                     j <= Len(desiredPods[i].containers)}
    IN {[id |-> desiredPods[s[1]].containers[s[2]].name,
         image |-> desiredPods[s[1]].containers[s[2]].image] : s \in slots}

\* C40: after a SyncPods call in which no creation failed, whatever the
\* calls before it (failed creations included), the runtime's containers
\* are exactly those of the pods of the call's list, one per container
\* spec; and a call that repeats the list of the call before it creates and
\* removes nothing.
C40_RuntimeMatchesDesired ==
    call.fn = "SyncPods" /\ ~call.failed =>
        /\ {[id |-> id, image |-> call.containers[id].image] :
                id \in DOMAIN call.containers} = Expected(call.desired)
        /\ call.repeated => call.ops = 0

====
